---- MODULE Spec2Model ----
(***************************************************************************)
(* A model of ddshow's event replay and span correlation:                  *)
(*   - EventReader::next, the framed event source                          *)
(*     (src/src/dataflow/operators/replay_with_shutdown.rs)                *)
(*   - replay_with_shutdown_into_core, the replay driver (same file)       *)
(*   - EventProcessor, the span correlator                                 *)
(*     (src/src/dataflow/worker_timeline.rs)                               *)
(*   - extract_timely_info, the timely event extractor, which feeds the    *)
(*     span correlator when the timeline is enabled                        *)
(*     (src/src/dataflow/timely_source.rs)                                 *)
(*   - worker_timeline's operator for differential events                  *)
(*     (src/src/dataflow/worker_timeline.rs)                               *)
(*   - rewire_channels, the channel rewirer                                *)
(*     (src/src/dataflow/subgraphs.rs)                                     *)
(*   - dataflow_stats and sift_leaves_and_scopes, the dataflow statistics  *)
(*     (src/src/dataflow/mod.rs)                                           *)
(*   - the worker closure of main and wait_for_input                       *)
(*     (src/src/main.rs, src/src/replay_loading.rs)                        *)
(*   - the work list of extract_timely_info                                *)
(*     (src/src/dataflow/timely_source.rs)                                 *)
(*   - make_streams (src/src/replay_loading.rs)                            *)
(* Each component has its own specification (SpecReader, SpecDriver,       *)
(* SpecSpan, SpecExtract, ...); the variables of the other components stay *)
(* at their idle values.                                                   *)
(***************************************************************************)
EXTENDS Integers, Sequences, FiniteSets, TLC

VARIABLES
    \* ---- EventReader (one source stream) ----
    stream,         \* the bytes the underlying reader R will ever yield
    srcFrames,      \* the complete frames that were written into stream
    rpos,           \* bytes of stream already handed out by R::read
    buff1,          \* EventReader.buff1
    consumed,       \* EventReader.consumed
    valid,          \* EventReader.valid
    peer_finished,  \* EventReader.peer_finished
    retried,        \* EventReader.retried
    is_finished,    \* the caller's flag passed as &mut bool
    last,           \* what the last call of next returned
    delivered,      \* the events returned so far, in order
    rhist,          \* what the calls so far did (history)
    \* ---- replay driver (one operator instance on one worker) ----
    event_streams,    \* per source: the results its next() has still to give
    src_eof,          \* per source: 0 connected, 1 EOF observed, 2 retried
    is_running,       \* the shared AtomicBool
    started,
    streams_finished,
    antichain,        \* MutableAntichain: net count per time
    internals,        \* net of all updates written to progress.internals[0]
    produceds,        \* net of all counts drained into progress.produceds[0]
    counter,          \* PushCounter::produced(): pushed, not yet drained
    fuel,             \* [default, left]; -1 is Fuel::unlimited()
    pc,               \* position of the operator closure
    stream_idx,
    ret,              \* what the last activation returned
    dh,               \* what the activations so far did (history)
    \* ---- span correlator (collect_timely_events) ----
    event_map,        \* (worker, EventKind) -> stack of (start time, capability)
    sp_out,           \* the records the last event gave to the output
    sp_clock,         \* time of the capability of the batch being processed
    sp_events,        \* events processed so far
    sp_panicked,      \* a Duration subtraction overflowed: the thread unwound
    sh,               \* what the events so far did (history)
    \* ---- the clocks of the source workers whose events are analysed ----
    src_monotone,     \* the source workers' clocks never run backwards
    ticked,           \* the source workers that stamped a time above 0
    \* ---- timely event extractor (extract_timely_info) ----
    timeline,         \* !disable_timeline: the span correlator is fed too
    lifespan_map,     \* (worker, operator) -> time of its Operates
    activation_map,   \* (worker, operator) -> time of its Schedule(Start)
    ex_out,           \* the records the last event gave to the outputs
    ex_cap,           \* time the batch's retained capabilities are held at
    ex_panicked,      \* a Duration subtraction overflowed: the thread unwound
    ex_closed,        \* the input has ended and the work list is drained
    \* ---- differential event operator of worker_timeline ----
    diff_map,         \* its own event_map: (worker, operator) -> one Merge start
    df_out,           \* the records the last differential event gave
    df_panicked,      \* a Duration subtraction overflowed: the thread unwound
    dfh,              \* what the differential events so far did (history)
    eh,               \* what the events so far did (history)
    \* ---- channel rewirer (rewire_channels) ----
    rw_channels,      \* the raw channels (ChannelsEvent) collected so far
    rw_subgraphs,     \* the subgraph addresses collected so far
    rw_out,           \* the Channel collection rewire_channels gives for them
    \* ---- dataflow statistics (sift_leaves_and_scopes, dataflow_stats) ----
    st_operators,     \* the Operates events collected: (worker, id, addr)
    st_channels,      \* the Channels events collected: (worker, id, scope_addr)
    st_lifespans,     \* the lifespans collected: (worker, id, lifespan)
    st_leaves,        \* leaf_operators of sift_leaves_and_scopes
    st_subgraphs,     \* observed_subgraphs of sift_leaves_and_scopes
    st_stats,         \* the DataflowStats collection
    \* ---- analyzer workers and the main thread (main, wait_for_input) ----
    replay_shutdown,  \* the AtomicBool `running` of main, replay_shutdown in a worker
    workers_finished, \* the AtomicUsize workers_finished
    wk_pc,            \* worker -> where its thread is
    wk_done,          \* worker -> probe.done()
    wk_dropped,       \* worker -> it called drop_dataflow
    wk_counted,       \* worker -> its fetch_adds so far (history)
    main_pc,          \* where the main thread is in wait_for_input
    \* ---- the extractor's work list (extract_timely_info) ----
    wl_input,         \* batches on the operator's input, not yet pulled
    work_list,        \* the VecDeque work_list
    wl_fuel,          \* the closure's Fuel
    wl_timeline,      \* the worker timeline is built (!disable_timeline)
    wl_done,          \* ids of the batches drained so far, in order (history)
    wl_arrived,       \* batches given to the input so far
    wl_activated,     \* the last call ended with activator.activate()
    wl_panicked,      \* a call unwound
    \* ---- make_streams ----
    ms_kind,          \* the variant of ReplaySource
    ms_num_workers,   \* num_workers
    ms_sources,       \* sources.len(); a source is named by its position
    ms_idx,           \* positions dealt so far
    ms_readers,       \* worker -> its bundle (`readers`)
    ms_channels,      \* worker -> the bundles in its channel
    ms_received,      \* worker -> the bundles it has received
    ms_worker,        \* the next worker to send to
    ms_pc             \* where make_streams is

readerVars == <<stream, srcFrames, rpos, buff1, consumed, valid, peer_finished,
                retried, is_finished, last, delivered, rhist>>

driverVars == <<event_streams, src_eof, is_running, started, streams_finished,
                antichain, internals, produceds, counter, fuel, pc, stream_idx,
                ret, dh>>

spanVars == <<event_map, sp_out, sp_clock, sp_events, sp_panicked, sh>>

clockVars == <<src_monotone, ticked>>

extractVars == <<timeline, lifespan_map, activation_map, ex_out, ex_cap,
                 ex_panicked, ex_closed, eh>>

diffVars == <<diff_map, df_out, df_panicked, dfh>>

rewireVars == <<rw_channels, rw_subgraphs, rw_out>>

statsVars == <<st_operators, st_channels, st_lifespans, st_leaves, st_subgraphs,
               st_stats>>

workerVars == <<replay_shutdown, workers_finished, wk_pc, wk_done, wk_dropped, wk_counted,
                main_pc>>

workListVars == <<wl_input, work_list, wl_fuel, wl_timeline, wl_done, wl_arrived,
                  wl_activated, wl_panicked>>

streamVars == <<ms_kind, ms_num_workers, ms_sources, ms_idx, ms_readers,
                ms_channels, ms_received, ms_worker, ms_pc>>

vars == <<readerVars, driverVars, spanVars, clockVars, extractVars, diffVars,
          rewireVars, statsVars, workerVars, workListVars, streamVars>>

----------------------------------------------------------------------------
(* Bounds *)

\* frames written into one source stream
MaxFrames == 3
\* bytes one call of R::read returns at most (the scratch buffer `bytes`)
MaxRead == 3
\* sources one replay driver multiplexes (N)
MaxSources == 2
\* largest limit of a limited Fuel
MaxFuel == 2
\* timestamps are 0 .. MaxTime; 0 is Timestamp::minimum()
MaxTime == 2
\* events the span correlator is given
MaxSpanEvents == 4
\* raw channels the rewirer is given
MaxChannels == 3
\* rounds of a propagation loop that are followed
MaxRounds == 4
\* analyzer worker threads (args.workers)
NumWorkers == 2
\* batches given to the extractor
MaxBatches == 3
\* sources given to make_streams
MaxStreams == 4

----------------------------------------------------------------------------
(* Sequences *)

Min(a, b) == IF a < b THEN a ELSE b

RECURSIVE Flatten(_)
Flatten(ss) == IF ss = <<>> THEN <<>> ELSE Head(ss) \o Flatten(Tail(ss))

Drop(s, n) == SubSeq(s, n + 1, Len(s))

Take(s, n) == SubSeq(s, 1, n)

----------------------------------------------------------------------------
(* EventReader                                                             *)

\* The frames a stream is made of. A frame is self-delimiting: its first
\* byte gives its length, the rest is payload. Payload bytes can have the
\* value of a header byte, so a decode at a wrong offset yields a wrong frame.
FrameSet == {<<1>>, <<2, 1>>, <<3, 2, 1>>}

\* Result of abomonation::decode on a byte slice: <<event, rest>>, or <<>>
\* (None) when the slice does not hold a complete frame.
Decode(buf) ==
    IF Len(buf) >= 1 /\ Len(buf) >= buf[1]
    THEN <<Take(buf, buf[1]), Drop(buf, buf[1])>>
    ELSE <<>>

\* &self.buff1[self.consumed..]
Unconsumed == Drop(buff1, consumed)

\* `if self.peer_finished && self.retried`
IsFinishedCondEarly(pf, rt) == pf

IsFinishedCond(pf, rt) == pf /\ rt

\* self.consumed = self.valid - rest.len()
ConsumedAfterStale(v, rest) == Len(rest)

ConsumedAfter(v, rest) == v - Len(rest)

\* What R::read can return in the current state: a length, or -1 for an
\* io::Error (WouldBlock, TimedOut, reset ...). 0 is returned at end of
\* stream only.
ReadOutcomes ==
    IF rpos < Len(stream)
    THEN {-1} \cup (1 .. Min(MaxRead, Len(stream) - rpos))
    ELSE {-1, 0}

ReaderInit ==
    /\ \E fs \in UNION {[1 .. n -> FrameSet] : n \in 0 .. MaxFrames} :
       \E cut \in 0 .. 2 :
          /\ cut = 0 \/ (fs # <<>> /\ cut < Len(fs[Len(fs)]))
          /\ stream = Take(Flatten(fs), Len(Flatten(fs)) - cut)
          /\ srcFrames = IF cut = 0 THEN fs ELSE Take(fs, Len(fs) - 1)
    /\ rpos = 0
    /\ buff1 = <<>>
    /\ consumed = 0
    /\ valid = 0
    /\ peer_finished = FALSE
    /\ retried = FALSE
    /\ is_finished = FALSE
    /\ last = "init"
    /\ delivered = <<>>
    /\ rhist = [eofRead |-> FALSE, nonesAfterEof |-> 0, readFailed |-> FALSE,
                splitInside |-> FALSE, partialKept |-> FALSE]

ReaderIdle ==
    /\ stream = <<>>
    /\ srcFrames = <<>>
    /\ rpos = 0
    /\ buff1 = <<>>
    /\ consumed = 0
    /\ valid = 0
    /\ peer_finished = FALSE
    /\ retried = FALSE
    /\ is_finished = FALSE
    /\ last = "init"
    /\ delivered = <<>>
    /\ rhist = [eofRead |-> FALSE, nonesAfterEof |-> 0, readFailed |-> FALSE,
                splitInside |-> FALSE, partialKept |-> FALSE]

\* `if len == 0 { self.peer_finished = true; }`
ReadIsEofOrShort(len) == len <= 1

ReadIsEof(len) == len = 0

\* One call of EventReader::next whose R::read, if reached, returns `outcome`.
\* The two `?` of the function are on Vec<u8>::write_all, which cannot fail,
\* and a failed read is skipped by `if let Ok(len)`: no path returns Err.
EventReaderNext(outcome) ==
    IF ~IsFinishedCond(peer_finished, retried) /\ peer_finished
    THEN \* else-if branch: one more tick for the caller
         /\ retried' = TRUE
         /\ last' = "none"
         /\ rhist' = [rhist EXCEPT !.nonesAfterEof = Min(@ + 1, 2),
                                   !.readFailed = FALSE]
         /\ UNCHANGED <<stream, srcFrames, rpos, buff1, consumed, valid,
                        peer_finished, is_finished, delivered>>
    ELSE
      LET fin == IsFinishedCond(peer_finished, retried)
          d   == Decode(Unconsumed)
      IN
      /\ is_finished' = (is_finished \/ fin)
      /\ IF d # <<>>
         THEN \* a complete frame is decoded and returned
              /\ consumed' = ConsumedAfter(valid, d[2])
              /\ delivered' = Append(delivered, d[1])
              /\ last' = "some"
              /\ rhist' = [rhist EXCEPT !.readFailed = FALSE]
              /\ UNCHANGED <<stream, srcFrames, rpos, buff1, valid,
                             peer_finished, retried>>
         ELSE \* shift the unconsumed tail to offset 0, then read
              LET shifted == IF consumed > 0 THEN Unconsumed ELSE buff1
                  valid1  == IF consumed > 0 THEN Len(shifted) ELSE valid
                  len     == IF outcome < 0 THEN 0 ELSE outcome
                  got     == SubSeq(stream, rpos + 1, rpos + len)
              IN
              /\ consumed' = 0
              /\ buff1' = IF outcome < 0 THEN shifted ELSE shifted \o got
              /\ valid' = IF outcome < 0 THEN valid1 ELSE Len(shifted \o got)
              /\ rpos' = rpos + len
              /\ peer_finished' = (peer_finished \/ ReadIsEof(outcome))
              /\ last' = "none"
              /\ delivered' = delivered
              /\ rhist' = [rhist EXCEPT
                    !.eofRead = @ \/ outcome = 0,
                    !.nonesAfterEof = IF rhist.eofRead THEN Min(@ + 1, 2) ELSE @,
                    !.readFailed = (outcome < 0),
                    !.splitInside = @ \/ (outcome > 0 /\ rpos + len < Len(stream)
                                          /\ Decode(shifted \o got) = <<>>
                                          /\ shifted \o got # <<>>),
                    !.partialKept = @ \/ (outcome >= 0 /\ shifted # <<>>)]
              /\ UNCHANGED <<stream, srcFrames, retried>>

ReaderStep == \E outcome \in ReadOutcomes : EventReaderNext(outcome)

----------------------------------------------------------------------------
(* Replay driver: replay_with_shutdown_into_core                           *)

Time == 0 .. MaxTime

Zero == [t \in Time |-> 0]

\* Event::Progress(vec), Event::Messages(time, data) with |data| = n, and a
\* frame on which the source's next returns Err
EvProgress(upd) == [k |-> "P", upd |-> upd, t |-> 0, n |-> 0]

EvMessages(t, n) == [k |-> "M", upd |-> <<>>, t |-> t, n |-> n]

EvCorrupt == [k |-> "E", upd |-> <<>>, t |-> 0, n |-> 0]

\* The captured streams the sources replay. A capture starts with one
\* capability at the minimum time and reports every change of it.
DriverScripts ==
    { \* complete: advances to 1, one message, releases
      <<EvProgress(<<<<0, -1>>, <<1, 1>>>>), EvMessages(1, 1), EvProgress(<<<<1, -1>>>>)>>,
      \* cut off by the peer: two records at 0, advances to 2, never releases
      <<EvMessages(0, 2), EvProgress(<<<<0, -1>>, <<2, 1>>>>)>>,
      \* a frame that fails to decode
      <<EvProgress(<<<<0, -1>>, <<1, 1>>>>), EvCorrupt>> }

\* ChangeBatch::extend / MutableAntichain::update_iter: add the updates
RECURSIVE ApplyUpdates(_, _)
ApplyUpdates(counts, upd) ==
    IF upd = <<>> THEN counts
    ELSE ApplyUpdates([counts EXCEPT ![Head(upd)[1]] = @ + Head(upd)[2]], Tail(upd))

\* MutableAntichain::frontier: the minimal times of positive count
Frontier(counts) ==
    {t \in Time : counts[t] > 0 /\ \A u \in Time : counts[u] > 0 => u >= t}

\* Fuel (operators::util): limited(n) starts at n, exert subtracts
\* (saturating), is_exhausted is "nothing left", reset restores the default
FuelReset(f) == [f EXCEPT !.left = f.default]

FuelExert(f, effort) ==
    IF f.left < 0 THEN f
    ELSE [f EXCEPT !.left = IF @ > effort THEN @ - effort ELSE 0]

FuelIsExhausted(f) == f.left = 0

\* `if fuel.is_exhausted() { break 'event_loop; }` after an event is handled
AfterEventNeverBreaks(f) == FALSE

AfterEventBreaks(f) == FuelIsExhausted(f)

\* `is_running.load(Ordering::Acquire) && !all_streams_finished`
NeedsReactivationEither(running, all_finished) == running \/ ~all_finished

NeedsReactivation(running, all_finished) == running /\ ~all_finished

\* after Err: `is_running.store(false, ..); break 'event_loop;`
ErrKeepsPolling(n) == IF stream_idx < n THEN "loop" ELSE "end"

ErrBreaksTo(n) == "end"

\* `while !antichain.is_empty() { ... }`: one -1 per frontier element and
\* round, written to progress.internals[0] and to the antichain
RECURSIVE ReleaseAll(_, _)
ReleaseAll(ac, int) ==
    IF Frontier(ac) = {} THEN <<ac, int>>
    ELSE ReleaseAll([t \in Time |-> IF t \in Frontier(ac) THEN ac[t] - 1 ELSE ac[t]],
                    [t \in Time |-> IF t \in Frontier(ac) THEN int[t] - 1 ELSE int[t]])

\* of a partial release: only one round of the loop
ReleaseOnce(ac, int) ==
    <<[t \in Time |-> IF t \in Frontier(ac) THEN ac[t] - 1 ELSE ac[t]],
      [t \in Time |-> IF t \in Frontier(ac) THEN int[t] - 1 ELSE int[t]]>>

Release(ac, int) == ReleaseAll(ac, int)

NumSources == Len(event_streams)

AllStreamsFinished == \A i \in 1 .. NumSources : streams_finished[i]

\* The capabilities the operator holds as timely's progress tracking sees
\* them: the one capability every operator output is given at the minimum
\* time, plus everything the operator reported in progress.internals[0].
Held == [t \in Time |-> (IF t = 0 THEN 1 ELSE 0) + internals[t]]

DhInit ==
    [a_beganStopped |-> FALSE,  \* is_running was false when this one began
     a_polled |-> FALSE,        \* next was called in this activation
     a_err |-> FALSE,           \* a next returned Err in this activation
     a_pollsAfterErr |-> 0,
     a_exhausted |-> FALSE,     \* fuel ran out after an event in this activation
     a_pollsAfterExhaust |-> 0,
     a_emitted |-> 0,           \* records given to the output in this activation
     a_sched |-> 0,             \* activate_after calls in this activation
     a_endRunning |-> TRUE,     \* is_running as loaded for needs_reactivation
     a_inflated |-> FALSE,      \* this activation did the N-1 inflation
     a_reported |-> 0,          \* counts drained into produceds in this activation
     prevRet |-> "never",       \* what the activation before this one returned
     prevInternals |-> Zero]    \* internals when this activation began

DriverInit ==
    /\ \E n \in 1 .. MaxSources : event_streams \in [1 .. n -> DriverScripts]
    /\ src_eof = [i \in 1 .. NumSources |-> 0]
    /\ is_running = TRUE
    /\ started = FALSE
    /\ streams_finished = [i \in 1 .. NumSources |-> FALSE]
    /\ antichain = Zero
    /\ internals = Zero
    /\ produceds = 0
    /\ counter = 0
    /\ \E f \in {-1, MaxFuel} : fuel = [default |-> f, left |-> f]
    /\ pc = "idle"
    /\ stream_idx = 1
    /\ ret = "never"
    /\ dh = DhInit

DriverIdle ==
    /\ event_streams = <<>>
    /\ src_eof = <<>>
    /\ is_running = TRUE
    /\ started = FALSE
    /\ streams_finished = <<>>
    /\ antichain = Zero
    /\ internals = Zero
    /\ produceds = 0
    /\ counter = 0
    /\ fuel = [default |-> -1, left |-> -1]
    /\ pc = "idle"
    /\ stream_idx = 1
    /\ ret = "never"
    /\ dh = DhInit

\* The main thread's `running.store(false, Ordering::Release)`
StoreNotRunning ==
    /\ is_running
    /\ is_running' = FALSE
    /\ UNCHANGED <<event_streams, src_eof, started, streams_finished, antichain,
                   internals, produceds, counter, fuel, pc, stream_idx, ret, dh>>

\* `if !started`: the activation that modifies the capabilities
InflatesAlways(was_started) == TRUE

InflatesNow(was_started) == ~was_started

\* The runtime schedules the operator: `if !started { .. }` and fuel.reset()
DriverBegin ==
    /\ pc = "idle"
    /\ started' = TRUE
    /\ internals' = IF InflatesNow(started)
                    THEN [internals EXCEPT ![0] = @ + (NumSources - 1)]
                    ELSE internals
    /\ antichain' = IF InflatesNow(started)
                    THEN ApplyUpdates(antichain, <<<<0, NumSources - 1>>>>)
                    ELSE antichain
    /\ fuel' = FuelReset(fuel)
    /\ pc' = "loop"
    /\ stream_idx' = 1
    /\ dh' = [DhInit EXCEPT !.a_beganStopped = ~is_running,
                            !.a_inflated = ~started,
                            !.prevRet = ret,
                            !.prevInternals = internals]
    /\ UNCHANGED <<event_streams, src_eof, is_running, streams_finished,
                   produceds, counter, ret>>

\* What event_streams[i].next(&mut streams_finished[i]) gives. `arrived`
\* says whether the bytes of the next frame have reached the reader. After
\* the last frame the source goes through EventReader's end of stream:
\* Ok(None) on EOF, Ok(None) once more, and from then on *is_finished = true.
SourceNext(i, arrived) ==
    LET evs == event_streams[i] IN
    IF evs # <<>> /\ ~arrived
    THEN [res |-> "none", ev |-> EvCorrupt, rest |-> evs, eof |-> src_eof[i], fin |-> FALSE]
    ELSE IF evs # <<>> /\ Head(evs).k = "E"
    THEN [res |-> "err", ev |-> EvCorrupt, rest |-> evs, eof |-> src_eof[i], fin |-> FALSE]
    ELSE IF evs # <<>>
    THEN [res |-> "some", ev |-> Head(evs), rest |-> Tail(evs), eof |-> src_eof[i], fin |-> FALSE]
    ELSE [res |-> "none", ev |-> EvCorrupt, rest |-> evs,
          eof |-> Min(src_eof[i] + 1, 2), fin |-> (src_eof[i] = 2)]

\* One round of 'stream_loop: a call of next and the match on its result
DriverPoll ==
    /\ pc = "loop"
    /\ \E arrived \in BOOLEAN :
       LET i == stream_idx
           r == SourceNext(i, arrived)
           spent == IF r.res # "some" THEN fuel
                    ELSE IF r.ev.k = "P" THEN FuelExert(fuel, 1)
                    ELSE FuelExert(fuel, r.ev.n)
           breaks == r.res = "some" /\ AfterEventBreaks(spent)
       IN
       /\ (event_streams[i] = <<>> => arrived)
       /\ event_streams' = [event_streams EXCEPT ![i] = r.rest]
       /\ src_eof' = [src_eof EXCEPT ![i] = r.eof]
       /\ streams_finished' = [streams_finished EXCEPT ![i] = @ \/ r.fin]
       /\ fuel' = spent
       /\ internals' = IF r.res = "some" /\ r.ev.k = "P"
                       THEN ApplyUpdates(internals, r.ev.upd) ELSE internals
       /\ antichain' = IF r.res = "some" /\ r.ev.k = "P"
                       THEN ApplyUpdates(antichain, r.ev.upd) ELSE antichain
       /\ counter' = IF r.res = "some" /\ r.ev.k = "M"
                     THEN counter + r.ev.n ELSE counter
       /\ is_running' = IF r.res = "err" THEN FALSE ELSE is_running
       /\ pc' = CASE r.res = "some" -> IF breaks THEN "end" ELSE "loop"
                  [] r.res = "err" -> ErrBreaksTo(NumSources)
                  [] OTHER ->  \* Ok(None)
                       IF ~is_running THEN "end"
                       ELSE IF FuelIsExhausted(fuel) THEN "end"
                       ELSE IF i < NumSources THEN "loop" ELSE "end"
       /\ stream_idx' = IF r.res = "none" /\ is_running /\ ~FuelIsExhausted(fuel)
                           /\ i < NumSources
                        THEN i + 1
                        ELSE IF r.res = "err" /\ ErrBreaksTo(NumSources) = "loop"
                        THEN i + 1
                        ELSE i
       /\ dh' = [dh EXCEPT
             !.a_polled = TRUE,
             !.a_err = @ \/ r.res = "err",
             !.a_pollsAfterErr = IF dh.a_err THEN 1 ELSE @,
             !.a_exhausted = @ \/ (r.res = "some" /\ FuelIsExhausted(spent)),
             !.a_pollsAfterExhaust = IF dh.a_exhausted THEN 1 ELSE @,
             !.a_emitted = IF r.res = "some" /\ r.ev.k = "M" THEN @ + r.ev.n ELSE @]
       /\ UNCHANGED <<started, produceds, ret>>

\* After 'event_loop: reactivate, or release everything and finish
DriverEnd ==
    /\ pc = "end"
    /\ pc' = "idle"
    /\ IF NeedsReactivation(is_running, AllStreamsFinished)
       THEN /\ produceds' = produceds + counter
            /\ counter' = 0
            /\ ret' = "reactivate"
            /\ dh' = [dh EXCEPT !.a_sched = @ + 1, !.a_endRunning = is_running,
                                !.a_reported = counter]
            /\ UNCHANGED <<antichain, internals>>
       ELSE /\ antichain' = Release(antichain, internals)[1]
            /\ internals' = Release(antichain, internals)[2]
            /\ ret' = "no_reactivation"
            /\ dh' = [dh EXCEPT !.a_endRunning = is_running]
            /\ UNCHANGED <<produceds, counter>>
    /\ UNCHANGED <<event_streams, src_eof, is_running, started, streams_finished,
                   fuel, stream_idx>>

----------------------------------------------------------------------------
(* Span correlator: collect_timely_events, EventProcessor                  *)

\* WorkerIdentifier of the events' source workers
Workers == {0, 1}

\* operator ids (the same ids exist on every source worker)
Ops == {1, 2}

\* enum EventKind
KindOperatorActivation(op) == [kind |-> "OperatorActivation", id |-> op]

KindApplication(id) == [kind |-> "Application", id |-> id]

KindMerge(op) == [kind |-> "Merge", id |-> op]

KindPlain(name) == [kind |-> name, id |-> 0]

EventKinds ==
    {KindOperatorActivation(op) : op \in Ops} \cup {KindMerge(op) : op \in Ops}
    \cup {KindApplication(1)}
    \cup {KindPlain(n) : n \in {"Message", "Progress", "Input", "Park"}}

SpanKeys == Workers \X EventKinds

\* enum PartialTimelineEvent: Application carries no id, Park becomes Parked
PartialOf(kind) ==
    CASE kind.kind = "Application" -> [kind |-> "Application", id |-> 0]
      [] kind.kind = "Park" -> [kind |-> "Parked", id |-> 0]
      [] OTHER -> kind

\* The TimelyEvents given to process_timely_event (the variants it ignores,
\* Operates, Channels, ..., change nothing and are left out).
EvSchedule(op, start) == [ev |-> "Schedule", id |-> op, start |-> start]

EvApplication(id, start) == [ev |-> "Application", id |-> id, start |-> start]

EvGuarded(name, start) == [ev |-> name, id |-> 0, start |-> start]

EvPark(park) == [ev |-> "Park", id |-> 0, start |-> park]

EvShutdown(op) == [ev |-> "Shutdown", id |-> op, start |-> FALSE]

EvOperates(op) == [ev |-> "Operates", id |-> op, start |-> TRUE]

\* the TimelyEvents process_timely_event matches with an empty arm
IgnoredBySpans ==
    {"Operates", "Channels", "PushProgress", "Messages", "CommChannels", "Text"}

SpanEvents ==
    {EvSchedule(1, b) : b \in BOOLEAN} \cup {EvApplication(1, b) : b \in BOOLEAN}
    \cup {EvSchedule(2, TRUE), EvPark(TRUE)}
    \cup {EvShutdown(1)}

\* the events that close spans: only these are tried with a regressed time
Closing(e) == e.ev = "Shutdown" \/ ~e.start

\* The record output_event / remove_referencing give to the output:
\* ((worker, partial_event, duration), time, 1) in a session of capability cap
TimelineRecord(w, partial, start, now, cap) ==
    [worker |-> w, partial |-> partial, duration |-> now - start,
     time |-> now, cap |-> cap]

\* The WorkerTimelineEvent worker_timeline builds from a record
\* (worker_timeline.rs 209-216): `duration` and `start_time` are both
\* written from the record's duration.
WorkerTimelineEventOf(rec) ==
    [worker |-> rec.worker, event |-> rec.partial, duration |-> rec.duration,
     start_time |-> rec.duration, collapsed_events |-> 1]

\* The event main reports (main.rs 355-372): the extractor yields
\* (event, time, diff) with the time of the update, which is the record's
\* `self.time`, and `start_time` is overwritten with it.
ReportedTimelineEvent(rec) ==
    [WorkerTimelineEventOf(rec) EXCEPT !.start_time = rec.time]

Max(a, b) == IF a > b THEN a ELSE b

\* EventProcessor::insert: push (time, capability.clone())
Insert(map, w, kind, now, cap) ==
    [map EXCEPT ![<<w, kind>>] = Append(@, [start |-> now, cap |-> cap])]

\* `.and_then(Vec::pop)`: the entry remove takes off the stack
PopsFirst(stack) == 1

Pops(stack) == Len(stack)

\* the stack without the entry taken
PoppedStack(stack) ==
    [i \in 1 .. Len(stack) - 1 |->
        IF i < Pops(stack) THEN stack[i] ELSE stack[i + 1]]

\* the worker id remove_referencing writes into its records: self.worker,
\* the worker of the Shutdown event, not the worker of the drained key
DrainRecordWorker(self_worker, key_worker) == self_worker

\* the keys remove_referencing drains: every worker's OperatorActivation and
\* Merge stack of the operator (the match does not look at the key's worker)
DrainsNothing(key, self_worker, operator) == FALSE

Drains(key, self_worker, operator) ==
    /\ key[2].kind \in {"OperatorActivation", "Merge"}
    /\ key[2].id = operator

\* an order in which the keys of a HashMap are visited
RECURSIVE KeySeq(_)
KeySeq(keys) ==
    IF keys = {} THEN <<>>
    ELSE LET k == CHOOSE x \in keys : TRUE IN <<k>> \o KeySeq(keys \ {k})

\* `for (start_time, stored_capability) in value_stack.drain(..)`
DrainRecords(stack, w, kind, now, cap) ==
    [i \in 1 .. Len(stack) |->
        TimelineRecord(w, PartialOf(kind), stack[i].start, now,
                       Max(stack[i].cap, cap))]

RECURSIVE DrainAll(_, _, _, _, _)
DrainAll(keys, map, w, now, cap) ==
    IF keys = <<>> THEN <<>>
    ELSE DrainRecords(map[Head(keys)], DrainRecordWorker(w, Head(keys)[1]),
                      Head(keys)[2], now, cap)
         \o DrainAll(Tail(keys), map, w, now, cap)

SpanHistInit ==
    [starts |-> [k \in SpanKeys |-> 0],   \* STARTs inserted under the key
     records |-> [k \in SpanKeys |-> 0],  \* records emitted that carry the key
     orphan |-> FALSE,                    \* the last event was a stop with no start
     op |-> "none",                       \* what the last event did
     key |-> <<0, KindPlain("Park")>>,    \* the (worker, kind) of the last event
     time |-> 0,                          \* the time of the last event
     ev |-> [ev |-> "none", id |-> 0, start |-> FALSE]]   \* the last event

SpanInit ==
    /\ event_map = [k \in SpanKeys |-> <<>>]
    /\ sp_out = <<>>
    /\ sp_clock = 0
    /\ sp_events = 0
    /\ sp_panicked = FALSE
    /\ sh = SpanHistInit

SpanIdle == SpanInit

\* counts of the records in recs per key (worker, kind) they carry
RecordsFor(recs, k) ==
    Cardinality({i \in 1 .. Len(recs) :
        recs[i].worker = k[1] /\ recs[i].partial = PartialOf(k[2])})

\* One round of `for (time, worker, event) in buffer.drain(..)`:
\* EventProcessor::new and process_timely_event for the event e of source
\* worker w with time now. The capability is that of the batch.
ProcessTimelyEvent(w, now, e) ==
    LET cap == Max(sp_clock, now)
        kind == CASE e.ev = "Schedule" -> KindOperatorActivation(e.id)
                  [] e.ev = "Application" -> KindApplication(e.id)
                  [] e.ev = "Shutdown" -> KindOperatorActivation(e.id)
                  [] OTHER -> KindPlain(e.ev)
        key == <<w, kind>>
        stack == event_map[key]
    IN
    /\ ~sp_panicked
    /\ sp_events < MaxSpanEvents
    /\ sp_events' = sp_events + 1
    /\ sp_clock' = cap
    /\ IF e.ev \in IgnoredBySpans
       THEN \* Operates, Channels, ...: the empty match arm
            /\ sp_out' = <<>>
            /\ sp_panicked' = FALSE
            /\ sh' = [sh EXCEPT !.orphan = FALSE, !.op = "ignored",
                                !.key = key, !.time = now, !.ev = e]
            /\ UNCHANGED event_map
       ELSE IF e.ev = "Shutdown"
       THEN \* remove_referencing(shutdown.id)
            LET drained == {k \in SpanKeys : Drains(k, w, e.id)}
                recs == DrainAll(KeySeq(drained), event_map, w, now, cap)
                overflow == \E k \in drained : \E i \in 1 .. Len(event_map[k]) :
                               event_map[k][i].start > now
            IN
            IF overflow
            THEN /\ sp_panicked' = TRUE
                 /\ sp_out' = <<>>
                 /\ sh' = [sh EXCEPT !.op = "remove_referencing_overflow",
                                     !.key = key, !.time = now, !.ev = e]
                 /\ UNCHANGED event_map
            ELSE /\ sp_panicked' = FALSE
                 /\ sp_out' = recs
                 /\ event_map' = [k \in SpanKeys |->
                                    IF k \in drained THEN <<>> ELSE event_map[k]]
                 /\ sh' = [sh EXCEPT
                        !.records = [k \in SpanKeys |-> @[k] + RecordsFor(recs, k)],
                        !.orphan = FALSE, !.op = "remove_referencing",
                        !.key = key, !.time = now, !.ev = e]
       ELSE IF e.start
       THEN \* insert
            /\ event_map' = Insert(event_map, w, kind, now, cap)
            /\ sp_out' = <<>>
            /\ sp_panicked' = FALSE
            /\ sh' = [sh EXCEPT !.starts[key] = @ + 1, !.orphan = FALSE,
                                !.op = "insert", !.key = key, !.time = now, !.ev = e]
       ELSE IF stack = <<>>
       THEN \* remove: nothing to pop, warn and ignore
            /\ sp_out' = <<>>
            /\ sp_panicked' = FALSE
            /\ sh' = [sh EXCEPT !.orphan = TRUE, !.op = "remove_none", !.key = key, !.time = now, !.ev = e]
            /\ UNCHANGED event_map
       ELSE IF stack[Pops(stack)].start > now
       THEN \* remove: `self.time - start_time` overflows in output_event
            /\ sp_panicked' = TRUE
            /\ sp_out' = <<>>
            /\ sh' = [sh EXCEPT !.op = "remove_overflow", !.key = key, !.time = now, !.ev = e]
            /\ UNCHANGED event_map
       ELSE \* remove: pop and output_event
            /\ event_map' = [event_map EXCEPT ![key] = PoppedStack(stack)]
            /\ sp_out' = <<TimelineRecord(w, PartialOf(kind), stack[Pops(stack)].start,
                                          now, Max(stack[Pops(stack)].cap, cap))>>
            /\ sp_panicked' = FALSE
            /\ sh' = [sh EXCEPT !.records[key] = @ + 1, !.orphan = FALSE,
                                !.op = "remove", !.key = key, !.time = now, !.ev = e]

\* Event times grow with the stream; a closing event may also carry a time
\* before everything seen (a regressed clock of the source).
SpanStep ==
    \E w \in Workers : \E e \in SpanEvents :
       \E now \in {sp_events + 1} \cup (IF Closing(e) THEN {0} ELSE {}) :
          ProcessTimelyEvent(w, now, e)

----------------------------------------------------------------------------
(* Timely event extractor: extract_timely_info                             *)

\* the keys (WorkerId, OperatorId) of lifespan_map and activation_map
ExtractKeys == Workers \X Ops

\* Option<Duration>
None == <<>>

Some(t) == <<t>>

\* the events given to the extractor: those of one operator, and Park and
\* Unpark, which only the span correlator looks at
ExtractEvents ==
    {EvOperates(1), EvShutdown(1), EvSchedule(1, TRUE), EvSchedule(1, FALSE),
     EvPark(TRUE), EvPark(FALSE)}

\* Lifespan::new(birth, death)
Lifespan(start, end) == [start |-> start, end |-> end]

\* ((worker, shutdown.id), Lifespan::new(start_time, time)) on `lifespans`
LifespanRecord(key, start, now) ==
    [output |-> "lifespans", key |-> key, lifespan |-> Lifespan(start, now)]

\* ((worker, operator), (start_time, duration)) on `activation_durations`
ActivationStartOnly(key, start, now) ==
    [output |-> "activation_durations", key |-> key, start |-> start,
     duration |-> now]

ActivationRecord(key, start, now) ==
    [output |-> "activation_durations", key |-> key, start |-> start,
     duration |-> now - start]

\* ((worker, operates.id), time) on `operator_creations`
CreationRecord(key, now) ==
    [output |-> "operator_creations", key |-> key, time |-> now]

\* `activation_map.insert((worker, operator), time)`: one slot per key, a
\* second Start replaces the first
ActivationInsert(map, key, now) == [map EXCEPT ![key] = Some(now)]

\* `activation_map.remove(&(worker, operator))` of the Stop arm: the slot of
\* the event's own worker and operator
StopSlotAnyWorker(map, key) ==
    IF map[key] # None THEN map[key]
    ELSE LET others == {k \in ExtractKeys : k[2] = key[2] /\ map[k] # None}
         IN IF others = {} THEN None ELSE map[CHOOSE k \in others : TRUE]

StopSlot(map, key) == map[key]

\* `lifespan_map.remove(&(worker, shutdown.id))` (Shutdown arm): the entry
\* is taken out of the map
ShutdownPeeksLifespan(map, key) == map

ShutdownTakesLifespan(map, key) == [map EXCEPT ![key] = None]

\* `// Remove any dangling activations` (Shutdown arm)
ShutdownKeepsActivation(map, key) == map

ShutdownClearsActivation(map, key) == [map EXCEPT ![key] = None]

ExtractHistInit ==
    [op |-> "none",                         \* what the last event did
     key |-> <<0, 1>>,                      \* its (worker, operator)
     time |-> 0,                            \* its time
     ev |-> [ev |-> "none", id |-> 0, start |-> FALSE],   \* the last event
     created |-> [k \in ExtractKeys |-> None],  \* time of the key's last Operates
     operates |-> [k \in ExtractKeys |-> 0],    \* Operates events seen
     lifespans |-> [k \in ExtractKeys |-> 0],   \* lifespan records emitted
     acts |-> [k \in ExtractKeys |-> 0],        \* activation records emitted
     depth |-> [k \in ExtractKeys |-> 0],       \* Starts open, paired as a stack
     pairs |-> [k \in ExtractKeys |-> 0]]       \* Stops that close a Start so paired

\* the source workers' clocks before any event
ClockInit(monotone) ==
    /\ src_monotone = monotone
    /\ ticked = {}

\* the clocks after worker w stamped an event with time now
ClockAfter(w, now) ==
    /\ ticked' = (IF now > 0 THEN ticked \cup {w} ELSE ticked)
    /\ UNCHANGED src_monotone

\* the times an event of worker w may carry: the stream's next time, or, for
\* an event that closes something, the least time, which a worker whose
\* clock never runs backwards stamps only while it has stamped nothing later
EventTimes(w, e) ==
    {sp_events + 1}
    \cup (IF Closing(e) /\ (src_monotone => w \notin ticked) THEN {0} ELSE {})

ExtractInit ==
    /\ timeline \in BOOLEAN
    /\ lifespan_map = [k \in ExtractKeys |-> None]
    /\ activation_map = [k \in ExtractKeys |-> None]
    /\ ex_out = <<>>
    /\ ex_cap = 0
    /\ ex_panicked = FALSE
    /\ ex_closed = FALSE
    /\ eh = ExtractHistInit

ExtractIdle ==
    /\ timeline = FALSE
    /\ lifespan_map = [k \in ExtractKeys |-> None]
    /\ activation_map = [k \in ExtractKeys |-> None]
    /\ ex_out = <<>>
    /\ ex_cap = 0
    /\ ex_panicked = FALSE
    /\ ex_closed = FALSE
    /\ eh = ExtractHistInit

\* the pairing of a key's Starts and Stops as a stack that Shutdown empties
PairingAfter(h, key, e) ==
    IF e.ev = "Shutdown" THEN [h EXCEPT !.depth[key] = 0]
    ELSE IF e.ev = "Schedule" /\ e.start THEN [h EXCEPT !.depth[key] = @ + 1]
    ELSE IF e.ev = "Schedule" /\ h.depth[key] > 0
    THEN [h EXCEPT !.depth[key] = @ - 1, !.pairs[key] = @ + 1]
    ELSE h

\* One round of `for (time, worker, event) in buffer.drain(..)` of the work
\* loop, for the event e of source worker w with time now. fresh: the event
\* is the first of a batch just popped off work_list, whose capabilities are
\* at the batch's time (the least time); otherwise they are where the
\* previous event of the batch left them.
ExtractEvent(w, now, e, fresh) ==
    LET key == <<w, e.id>>
        h == PairingAfter([eh EXCEPT !.key = key, !.time = now, !.ev = e],
                          key, e)
        held == IF fresh THEN 0 ELSE ex_cap
    IN
    /\ ~ex_panicked
    /\ ~sp_panicked
    /\ ~ex_closed
    /\ sp_events < MaxSpanEvents
    /\ ClockAfter(w, now)
    /\ UNCHANGED <<timeline, ex_closed>>
    /\ IF now < held
       THEN \* capabilities.downgrade(&session_time) to an earlier time
            /\ ex_panicked' = TRUE
            /\ ex_out' = <<>>
            /\ eh' = [eh EXCEPT !.op = "downgrade_overflow", !.key = key,
                                !.time = now, !.ev = e]
            /\ sp_events' = sp_events + 1
            /\ sp_out' = <<>>
            /\ UNCHANGED <<ex_cap, lifespan_map, activation_map>>
            /\ UNCHANGED <<event_map, sp_clock, sp_panicked, sh>>
       ELSE
       /\ ex_cap' = now
       /\ IF timeline
          THEN ProcessTimelyEvent(w, now, e)
          ELSE /\ sp_events' = sp_events + 1
               /\ UNCHANGED <<event_map, sp_out, sp_clock, sp_panicked, sh>>
       /\ IF sp_panicked'
          THEN \* process_timely_event unwound before the match
               /\ ex_out' = <<>>
               /\ ex_panicked' = FALSE
               /\ eh' = [eh EXCEPT !.op = "unwound", !.key = key, !.time = now,
                                   !.ev = e]
               /\ UNCHANGED <<lifespan_map, activation_map>>
          ELSE IF e.ev = "Operates"
          THEN /\ lifespan_map' = [lifespan_map EXCEPT ![key] = Some(now)]
               /\ ex_out' = <<CreationRecord(key, now)>>
               /\ ex_panicked' = FALSE
               /\ eh' = [h EXCEPT !.op = "operates", !.created[key] = Some(now),
                                  !.operates[key] = @ + 1]
               /\ UNCHANGED activation_map
          ELSE IF e.ev = "Shutdown"
          THEN /\ lifespan_map' = ShutdownTakesLifespan(lifespan_map, key)
               /\ activation_map' = ShutdownClearsActivation(activation_map, key)
               /\ ex_panicked' = FALSE
               /\ IF lifespan_map[key] # None
                  THEN /\ ex_out' = <<LifespanRecord(key, lifespan_map[key][1], now)>>
                       /\ eh' = [h EXCEPT !.op = "shutdown",
                                          !.lifespans[key] = @ + 1]
                  ELSE /\ ex_out' = <<>>
                       /\ eh' = [h EXCEPT !.op = "shutdown_none"]
          ELSE IF e.ev = "Schedule" /\ e.start
          THEN /\ activation_map' = ActivationInsert(activation_map, key, now)
               /\ ex_out' = <<>>
               /\ ex_panicked' = FALSE
               /\ eh' = [h EXCEPT !.op = "start"]
               /\ UNCHANGED lifespan_map
          ELSE IF e.ev = "Schedule" /\ StopSlot(activation_map, key) = None
          THEN \* Stop with nothing in the slot
               /\ ex_out' = <<>>
               /\ ex_panicked' = FALSE
               /\ eh' = [h EXCEPT !.op = "stop_none"]
               /\ UNCHANGED <<lifespan_map, activation_map>>
          ELSE IF e.ev = "Schedule" /\ StopSlot(activation_map, key)[1] > now
          THEN \* `time - start_time` overflows after the slot was emptied
               /\ activation_map' = [activation_map EXCEPT ![key] = None]
               /\ ex_out' = <<>>
               /\ ex_panicked' = TRUE
               /\ eh' = [eh EXCEPT !.op = "stop_overflow", !.key = key,
                                   !.time = now, !.ev = e]
               /\ UNCHANGED lifespan_map
          ELSE IF e.ev = "Schedule"
          THEN /\ activation_map' = [activation_map EXCEPT ![key] = None]
               /\ ex_out' = <<ActivationRecord(key, StopSlot(activation_map, key)[1],
                                                now)>>
               /\ ex_panicked' = FALSE
               /\ eh' = [h EXCEPT !.op = "stop", !.acts[key] = @ + 1]
               /\ UNCHANGED lifespan_map
          ELSE \* the other events: the empty match arm
               /\ ex_out' = <<>>
               /\ ex_panicked' = FALSE
               /\ eh' = [h EXCEPT !.op = "ignored"]
               /\ UNCHANGED <<lifespan_map, activation_map>>

ExtractStep ==
    \E w \in Workers : \E e \in ExtractEvents : \E fresh \in BOOLEAN :
       \E now \in EventTimes(w, e) :
          ExtractEvent(w, now, e, fresh)

\* An activation after the input has ended: `move |_frontiers|` does not look
\* at the frontier, timely_stream.for_each finds no batch and work_list is
\* empty, so the work loop breaks at once; nothing is emitted and the maps
\* (and the capabilities event_map stores) stay as they are.
ExtractInputEnds ==
    /\ ~ex_panicked
    /\ ~sp_panicked
    /\ ~ex_closed
    /\ ex_closed' = TRUE
    /\ ex_out' = <<>>
    /\ sp_out' = <<>>
    /\ UNCHANGED <<timeline, lifespan_map, activation_map, ex_cap, ex_panicked,
                   eh>>
    /\ UNCHANGED clockVars
    /\ UNCHANGED <<event_map, sp_clock, sp_events, sp_panicked, sh>>

----------------------------------------------------------------------------
(* worker_timeline: the timely span correlator (collect_timely_events) and *)
(* the operator "Associate Differential Start/Stop Events", whose outputs  *)
(* are concatenated                                                        *)

\* DifferentialEvent: Merge with complete = None / Some, MergeShortfall, Drop
EvMerge(op, complete) ==
    [ev |-> "Merge", id |-> op, start |-> ~complete]

EvMergeShortfall(op) == [ev |-> "MergeShortfall", id |-> op, start |-> FALSE]

EvDrop(op) == [ev |-> "Drop", id |-> op, start |-> FALSE]

DiffEvents ==
    {EvMerge(1, FALSE), EvMerge(1, TRUE), EvMergeShortfall(1), EvDrop(1)}

\* the timely events worker_timeline is given along with them
TimelineTimelyEvents == {EvSchedule(1, TRUE), EvShutdown(1)}

\* the differential operator's map has one slot per (worker, Merge{operator})
DiffKeys == Workers \X Ops

\* `event_map.insert((worker, event), (time, capability.clone()))`: the
\* previous start of the key, if any, is replaced and dropped without a record
DiffInsertKeepsFirst(map, key, now) ==
    IF map[key] = None THEN [map EXCEPT ![key] = Some(now)] ELSE map

DiffInsert(map, key, now) == [map EXCEPT ![key] = Some(now)]

\* the differential events that take the key's start out of the map
DiffClosesOnlyComplete(e) == e.ev = "Merge" /\ ~e.start

DiffCloses(e) ==
    \/ e.ev = "Merge" /\ ~e.start
    \/ e.ev \in {"MergeShortfall", "Drop"}

DiffHistInit ==
    [op |-> "none",
     key |-> <<0, 1>>,
     time |-> 0,
     ev |-> [ev |-> "none", id |-> 0, start |-> FALSE],
     \* per key, the times of the Merge starts since the key was last closed
     opened |-> [k \in DiffKeys |-> <<>>],
     \* the starts the last event closed, if it closed any
     closed |-> <<>>]

DiffInit ==
    /\ diff_map = [k \in DiffKeys |-> None]
    /\ df_out = <<>>
    /\ df_panicked = FALSE
    /\ dfh = DiffHistInit

DiffIdle == DiffInit

\* One round of `for (time, worker, event) in buffer.drain(..)` of the
\* differential operator, for the event e of source worker w with time now.
DiffEvent(w, now, e) ==
    LET key == <<w, e.id>>
        slot == diff_map[key]
        h == [dfh EXCEPT !.key = key, !.time = now, !.ev = e, !.closed = <<>>]
    IN
    /\ ~df_panicked
    /\ ~sp_panicked
    /\ sp_events < MaxSpanEvents
    /\ ClockAfter(w, now)
    /\ sp_events' = sp_events + 1
    /\ sp_out' = <<>>
    /\ UNCHANGED <<event_map, sp_clock, sp_panicked, sh>>
    /\ IF e.ev = "Merge" /\ e.start
       THEN /\ diff_map' = DiffInsert(diff_map, key, now)
            /\ df_out' = <<>>
            /\ df_panicked' = FALSE
            /\ dfh' = [h EXCEPT !.op = "insert", !.opened[key] = Append(@, now)]
       ELSE IF ~DiffCloses(e)
       THEN \* Batch, TraceShare: the empty match arm
            /\ df_out' = <<>>
            /\ df_panicked' = FALSE
            /\ dfh' = [h EXCEPT !.op = "ignored"]
            /\ UNCHANGED diff_map
       ELSE IF slot = None
       THEN /\ df_out' = <<>>
            /\ df_panicked' = FALSE
            /\ dfh' = [h EXCEPT !.op = "remove_none"]
            /\ UNCHANGED diff_map
       ELSE IF slot[1] > now
       THEN \* `time - start_time` overflows after the slot was emptied
            /\ diff_map' = [diff_map EXCEPT ![key] = None]
            /\ df_out' = <<>>
            /\ df_panicked' = TRUE
            /\ dfh' = [h EXCEPT !.op = "remove_overflow", !.opened[key] = <<>>,
                                !.closed = dfh.opened[key]]
       ELSE /\ diff_map' = [diff_map EXCEPT ![key] = None]
            /\ df_out' = <<TimelineRecord(w, KindMerge(e.id), slot[1], now, now)>>
            /\ df_panicked' = FALSE
            /\ dfh' = [h EXCEPT !.op = "remove", !.opened[key] = <<>>,
                                !.closed = dfh.opened[key]]

\* a timely event of worker_timeline: only collect_timely_events sees it
TimelineTimelyEvent(w, now, e) ==
    /\ ~df_panicked
    /\ ClockAfter(w, now)
    /\ ProcessTimelyEvent(w, now, e)
    /\ df_out' = <<>>
    /\ dfh' = [dfh EXCEPT !.op = "timely", !.key = <<w, e.id>>, !.time = now,
                          !.ev = e, !.closed = <<>>]
    /\ UNCHANGED <<diff_map, df_panicked>>

TimelineTimelyStep ==
    \E w \in Workers : \E e \in TimelineTimelyEvents : \E now \in EventTimes(w, e) :
       TimelineTimelyEvent(w, now, e)

TimelineDiffStep ==
    \E w \in Workers : \E e \in DiffEvents : \E now \in EventTimes(w, e) :
       DiffEvent(w, now, e)

----------------------------------------------------------------------------
(* Channel rewirer: rewire_channels (src/src/dataflow/subgraphs.rs). The   *)
(* dataflow keeps its output equal to the function below of the channels   *)
(* and subgraph addresses collected so far.                                *)

\* the scopes channels are logged in: the dataflow [0], the subgraph [0,2]
\* in it and the subgraph [0,2,1] in that
Scopes == {<<0>>, <<0, 2>>, <<0, 2, 1>>}

\* the addresses the `subgraphs` collection can hold
SubgraphAddrs == Scopes

\* the operator indices of a scope's channels: index 0 is the scope's own
\* boundary, which the dataflow itself does not have
IndicesOf(scope) == IF Len(scope) = 1 THEN {1, 2} ELSE {0, 1}

\* (source port, target port) of a channel
PortPairs == {<<0, 0>>, <<0, 1>>, <<1, 1>>}

\* a ChannelsEvent without its id: source and target are (index, port)
RawShapes ==
    {[scope_addr |-> a, source |-> <<ij[1], pq[1]>>, target |-> <<ij[2], pq[2]>>] :
        a \in Scopes, ij \in {0, 1, 2} \X {0, 1, 2}, pq \in PortPairs}

\* the shapes of the channels a traced program can have
ProgramShapes ==
    {shape \in RawShapes :
        /\ shape.source[1] \in IndicesOf(shape.scope_addr)
        /\ shape.target[1] \in IndicesOf(shape.scope_addr)}

\* Ord of Vec<usize>
RECURSIVE VecLess(_, _)
VecLess(a, b) ==
    IF a = <<>> THEN b # <<>>
    ELSE IF b = <<>> THEN FALSE
    ELSE IF Head(a) # Head(b) THEN Head(a) < Head(b)
    ELSE VecLess(Tail(a), Tail(b))

\* the order the traced program builds its channels in
BuiltBefore(x, y) ==
    VecLess(x.scope_addr \o <<x.source[1], x.source[2], x.target[1], x.target[2]>>,
            y.scope_addr \o <<y.source[1], y.source[2], y.target[1], y.target[2]>>)

\* the ChannelsEvent of the given shape logged with the given id
RawChannel(id, shape) ==
    [id |-> id, scope_addr |-> shape.scope_addr, source |-> shape.source,
     target |-> shape.target]

\* `channels.map(|channel| ((source, port), ((target, port), vec![id])))`
ChannelLinks(channels) ==
    {[source |-> <<Append(c.scope_addr, c.source[1]), c.source[2]>>,
      target |-> <<Append(c.scope_addr, c.target[1]), c.target[2]>>,
      path |-> <<c.id>>] : c \in channels}

\* Ord of the values ((target_addr, target_port), path) the reduce is given
ValueLess(x, y) ==
    IF x.target[1] # y.target[1] THEN VecLess(x.target[1], y.target[1])
    ELSE IF x.target[2] # y.target[2] THEN x.target[2] < y.target[2]
    ELSE VecLess(x.path, y.path)

\* a reduce that keeps every path of two ids or more
EveryLongPath(links) == {l \in links : Len(l.path) >= 2}

\* `.filter(path.len() >= 2).max_by_key(path.len())` over the values of one
\* source, which the reduce gets in order: the last of the longest
Deepest(links) ==
    LET long == {l \in links : Len(l.path) >= 2}
    IN IF long = {} THEN {}
       ELSE {CHOOSE l \in long : \A m \in long \ {l} :
                \/ Len(m.path) < Len(l.path)
                \/ Len(m.path) = Len(l.path) /\ ValueLess(m, l)}

\* the reduce keyed by source: per source, its deepest link if it has one
ReduceBySource(links) ==
    UNION {Deepest({l \in links : l.source = k}) : k \in {l.source : l \in links}}

\* one round of the ingress iteration: `channels_reverse` (the channels keyed
\* by their target) joined with the links re-keyed by (target ++ [0], port),
\* concatenated with the links
IngressRound(base, links) ==
    links \cup
    {[source |-> outer.source, target |-> inner.source,
      path |-> outer.path \o inner.path] :
        <<inner, outer>> \in
            {pr \in base \X links :
                /\ pr[1].target = <<Append(pr[2].target[1], 0), pr[2].target[2]>>
                /\ pr[1].path # pr[2].path}}

\* `channels.iterate(..)` of subgraph_ingress from its n-th round on: the
\* links it ends with, the rounds that added links, and whether it came to
\* a fixed point within MaxRounds such rounds
RECURSIVE IngressIterate(_, _, _)
IngressIterate(base, links, n) ==
    LET next == IngressRound(base, links)
    IN IF next = links THEN [links |-> links, rounds |-> n, fixed |-> TRUE]
       ELSE IF n = MaxRounds THEN [links |-> next, rounds |-> n, fixed |-> FALSE]
       ELSE IngressIterate(base, next, n + 1)

\* the collection `propagated_channels` of subgraph_ingress
IngressLinks(base) == IngressIterate(base, base, 0).links

\* a round that joins the channels that end where a link starts, in the
\* link's own scope
EgressRoundSameScope(base, links) ==
    links \cup
    {[source |-> inner.source, target |-> outer.target,
      path |-> inner.path \o outer.path] :
        <<inner, outer>> \in
            {pr \in base \X links :
                /\ pr[1].target = pr[2].source
                /\ pr[1].path # pr[2].path}}

\* one round of the egress iteration: `channels_reverse` joined with the
\* links re-keyed by (source ++ [0], port), concatenated with the links
EgressRound(base, links) ==
    links \cup
    {[source |-> inner.source, target |-> outer.target,
      path |-> inner.path \o outer.path] :
        <<inner, outer>> \in
            {pr \in base \X links :
                /\ pr[1].target = <<Append(pr[2].source[1], 0), pr[2].source[2]>>
                /\ pr[1].path # pr[2].path}}

\* `channels.iterate(..)` of subgraph_egress from its n-th round on
RECURSIVE EgressIterate(_, _, _)
EgressIterate(base, links, n) ==
    LET next == EgressRound(base, links)
    IN IF next = links THEN [links |-> links, rounds |-> n, fixed |-> TRUE]
       ELSE IF n = MaxRounds THEN [links |-> next, rounds |-> n, fixed |-> FALSE]
       ELSE EgressIterate(base, next, n + 1)

\* the collection `propagated_channels` of subgraph_egress
EgressLinks(base) == EgressIterate(base, base, 0).links

\* a Channel; path is the traced path the reduce chose, of which the code
\* keeps the first id only
Channel(kind, l) ==
    [kind |-> kind, channel_id |-> l.path[1], source_addr |-> l.source[1],
     target_addr |-> l.target[1], path |-> l.path]

SubgraphIngress(channels) ==
    LET base == ChannelLinks(channels)
    IN {Channel("ScopeIngress", l) : l \in ReduceBySource(IngressLinks(base))}

\* the egresses that end at a subgraph are dropped
SubgraphEgress(channels, subgraphs) ==
    LET base == ChannelLinks(channels)
    IN {ch \in {Channel("ScopeEgress", l) :
                    l \in ReduceBySource(EgressLinks(base))} :
            ch.target_addr \notin subgraphs}

\* a test of the ports (field 1 of an endpoint)
InsideScopeByPort(c) == c.source[2] # 0 /\ c.target[2] # 0

\* `channel.source.0 != 0 && channel.target.0 != 0`: neither endpoint is the
\* scope's boundary (field 0 of an endpoint is the operator index)
InsideScope(c) == c.source[1] # 0 /\ c.target[1] # 0

\* an antijoin of the source address alone
SourceNotSubgraph(m, subgraphs) == m.source[1] \notin subgraphs

\* `.antijoin(&subgraphs)` keyed by source_addr, then keyed by target_addr
NeitherEndIsSubgraph(m, subgraphs) ==
    m.source[1] \notin subgraphs /\ m.target[1] \notin subgraphs

SubgraphNormal(channels, subgraphs) ==
    {Channel("Normal", l) :
        l \in {m \in ChannelLinks({c \in channels : InsideScope(c)}) :
                  NeitherEndIsSubgraph(m, subgraphs)}}

\* ingress, egress and normal channels concatenated
RewireChannels(channels, subgraphs) ==
    SubgraphIngress(channels) \cup SubgraphEgress(channels, subgraphs)
        \cup SubgraphNormal(channels, subgraphs)

RewireInit ==
    /\ rw_channels = {}
    /\ rw_subgraphs = {}
    /\ rw_out = {}

RewireIdle == RewireInit

\* a ChannelsEvent reaches the `channels` collection: the events of a worker
\* come in the order the channels were built, which is the order of their
\* ids (9 being the first here)
RewireChannelArrives ==
    \E shape \in ProgramShapes :
        /\ Cardinality(rw_channels) < MaxChannels
        /\ \A c \in rw_channels : BuiltBefore(c, shape)
        /\ rw_channels' = rw_channels \cup {RawChannel(9 + Cardinality(rw_channels), shape)}
        /\ rw_subgraphs' = rw_subgraphs
        /\ rw_out' = RewireChannels(rw_channels', rw_subgraphs')

\* the address of a subgraph reaches the `subgraphs` collection
RewireSubgraphArrives ==
    \E a \in SubgraphAddrs \ rw_subgraphs :
        /\ rw_subgraphs' = rw_subgraphs \cup {a}
        /\ rw_channels' = rw_channels
        /\ rw_out' = RewireChannels(rw_channels', rw_subgraphs')

----------------------------------------------------------------------------
(* Dataflow statistics: sift_leaves_and_scopes and dataflow_stats          *)
(* (src/src/dataflow/mod.rs), fed by the extractor's operator and channel  *)
(* collections. The dataflow keeps their outputs equal to the functions    *)
(* below of the events collected so far.                                   *)

StatWorkers == {0, 1}

\* the operators a traced worker can log: a dataflow, an operator and a
\* subgraph in it, and an operator in that subgraph
StatOperators ==
    {[id |-> 1, addr |-> <<0>>], [id |-> 2, addr |-> <<0, 1>>],
     [id |-> 3, addr |-> <<0, 2>>], [id |-> 4, addr |-> <<0, 2, 1>>]}

\* the channels a traced worker can log, by id and scope_addr
StatChannels ==
    {[id |-> 9, scope_addr |-> <<0>>], [id |-> 10, scope_addr |-> <<0, 2>>],
     [id |-> 11, scope_addr |-> <<0, 2>>]}

\* OperatorAddr::is_top_level
IsTopLevel(addr) == Len(addr) = 1

\* `addr.pop()`: the address without its last element
Popped(addr) == IF addr = <<>> THEN <<>> ELSE SubSeq(addr, 1, Len(addr) - 1)

\* the immediate parent alone
OnlyParent(addr) == {Popped(addr)} \ {<<>>}

\* `(1..addr.len()).map(|i| &addr[..i])`: the non-empty strict prefixes
Parents(addr) == {SubSeq(addr, 1, i) : i \in 1 .. Len(addr) - 1}

\* the (worker, addr) pairs of `operator_addrs_by_self`
OperatorAddrs(operators) == {<<o.worker, o.addr>> : o \in operators}

\* potential scopes read as every strict prefix of an observed address
PotentialScopesAnyPrefix(addrs) ==
    UNION {{<<wa[1], p>> : p \in Parents(wa[2])} : wa \in addrs}

\* `potential_scopes` of sift_leaves_and_scopes
PotentialScopes(addrs) == {<<wa[1], Popped(wa[2])>> : wa \in addrs}

\* sift_leaves_and_scopes: (leaf_operators, observed_subgraphs)
SiftLeavesAndScopes(addrs) ==
    [leaves |-> addrs \ PotentialScopes(addrs),
     subgraphs |-> addrs \cap PotentialScopes(addrs)]

\* `subgraph_ids` of dataflow(): the ids of the observed subgraphs
SubgraphIds(operators) ==
    {<<o.worker, o.id>> : o \in
        {p \in operators :
            <<p.worker, p.addr>> \in SiftLeavesAndScopes(OperatorAddrs(operators)).subgraphs}}

\* `subgraph_children`: (worker, operator) -> subgraph, for every operator
\* of the worker whose address has the subgraph's address as a parent
SubgraphChildren(operators, subgraph_ids) ==
    {[worker |-> o.worker, operator |-> o.id, subgraph |-> sg.id] :
        <<sg, o>> \in
            {pr \in operators \X operators :
                /\ <<pr[1].worker, pr[1].id>> \in subgraph_ids
                /\ pr[1].worker = pr[2].worker
                /\ pr[1].addr \in Parents(pr[2].addr)}}

\* the join of `subgraph_addrs` with `channel_parents`: the channels of the
\* worker whose scope_addr has the subgraph's address as a parent
SubgraphChannels(operators, subgraph_ids, channels) ==
    {[worker |-> c.worker, channel |-> c.id, subgraph |-> sg.id] :
        <<sg, c>> \in
            {pr \in operators \X channels :
                /\ <<pr[1].worker, pr[1].id>> \in subgraph_ids
                /\ pr[1].worker = pr[2].worker
                /\ pr[1].addr \in Parents(pr[2].scope_addr)}}

\* dataflow_stats: one DataflowStats per dataflow that has a lifespan and a
\* count of each kind (`count_total` has no record for an empty group, and
\* the joins keep the keys all four collections have)
DataflowStats(operators, channels, lifespans) ==
    LET subgraph_ids == SubgraphIds(operators)
        children == SubgraphChildren(operators, subgraph_ids)
        subgraphs == {ch \in children : <<ch.worker, ch.operator>> \in subgraph_ids}
        chans == SubgraphChannels(operators, subgraph_ids, channels)
        Of(group, d) == {g \in group : g.worker = d.worker /\ g.subgraph = d.id}
    IN {[id |-> d.id, addr |-> d.addr, worker |-> d.worker,
         operators |-> Cardinality(Of(children, d)),
         subgraphs |-> Cardinality(Of(subgraphs, d)),
         channels |-> Cardinality(Of(chans, d)),
         lifespan |-> l.lifespan] :
            <<d, l>> \in
                {pr \in {o \in operators : IsTopLevel(o.addr)} \X lifespans :
                    /\ pr[2].worker = pr[1].worker /\ pr[2].id = pr[1].id
                    /\ Of(children, pr[1]) # {}
                    /\ Of(subgraphs, pr[1]) # {}
                    /\ Of(chans, pr[1]) # {}}}

StatsInit ==
    /\ st_operators = {}
    /\ st_channels = {}
    /\ st_lifespans = {}
    /\ st_leaves = {}
    /\ st_subgraphs = {}
    /\ st_stats = {}

StatsIdle == StatsInit

\* the outputs for the collections as they are after the step
StatsOutputs ==
    /\ st_leaves' = SiftLeavesAndScopes(OperatorAddrs(st_operators')).leaves
    /\ st_subgraphs' = SiftLeavesAndScopes(OperatorAddrs(st_operators')).subgraphs
    /\ st_stats' = DataflowStats(st_operators', st_channels', st_lifespans')

\* an Operates event of a worker is extracted
StatsOperatesArrives ==
    \E w \in StatWorkers, o \in StatOperators :
        /\ \A p \in st_operators : ~(p.worker = w /\ p.id = o.id)
        /\ st_operators' = st_operators \cup {[worker |-> w, id |-> o.id, addr |-> o.addr]}
        /\ UNCHANGED <<st_channels, st_lifespans>>
        /\ StatsOutputs

\* a Channels event of a worker is extracted
StatsChannelArrives ==
    \E w \in StatWorkers, c \in StatChannels :
        /\ \A p \in st_channels : ~(p.worker = w /\ p.id = c.id)
        /\ st_channels' =
             st_channels \cup {[worker |-> w, id |-> c.id, scope_addr |-> c.scope_addr]}
        /\ UNCHANGED <<st_operators, st_lifespans>>
        /\ StatsOutputs

\* the Shutdown of a dataflow a worker announced is extracted and gives its
\* lifespan (the lifespans of other operators are not read by dataflow_stats)
StatsShutdownArrives ==
    \E o \in st_operators :
        /\ IsTopLevel(o.addr)
        /\ \A l \in st_lifespans : ~(l.worker = o.worker /\ l.id = o.id)
        /\ st_lifespans' =
             st_lifespans \cup {[worker |-> o.worker, id |-> o.id, lifespan |-> "lifespan"]}
        /\ UNCHANGED <<st_operators, st_channels>>
        /\ StatsOutputs

----------------------------------------------------------------------------
(* Analyzer workers and the main thread: the closure given to              *)
(* timely::execute in main (src/src/main.rs) and wait_for_input            *)
(* (src/src/replay_loading.rs)                                             *)

AnalyzerWorkers == 0 .. NumWorkers - 1

\* where a worker thread can end: after its fetch_add, by `?` on the error
\* of dataflow::dataflow, or unwound by a panic inside a step
WorkerEnded == {"returned", "failed", "panicked"}

\* what one `worker.step_or_park` can do: leave the probe as it is, bring it
\* to done, run a replay operator that stores false into is_running (a
\* source error), or unwind because an operator panicked (the Duration
\* subtraction and the capability downgrade of the extractor)
StepOutcomes == {"stepped", "probe_done", "source_error", "panic"}

WorkersInit ==
    /\ replay_shutdown = TRUE
    /\ workers_finished = 0
    /\ wk_pc = [w \in AnalyzerWorkers |-> "build"]
    /\ wk_done = [w \in AnalyzerWorkers |-> FALSE]
    /\ wk_dropped = [w \in AnalyzerWorkers |-> FALSE]
    /\ wk_counted = [w \in AnalyzerWorkers |-> 0]
    /\ main_pc = "wait"

\* the flags as main creates them, no worker thread started
WorkersIdle ==
    /\ replay_shutdown = TRUE
    /\ workers_finished = 0
    /\ wk_pc = [w \in AnalyzerWorkers |-> "idle"]
    /\ wk_done = [w \in AnalyzerWorkers |-> FALSE]
    /\ wk_dropped = [w \in AnalyzerWorkers |-> FALSE]
    /\ wk_counted = [w \in AnalyzerWorkers |-> 0]
    /\ main_pc = "idle"

\* `worker.dataflow_named(.., |scope| dataflow::dataflow(..))?`: the probe,
\* or the closure returns the error (logging_event_sink failed)
WorkerBuild(w) ==
    /\ wk_pc[w] = "build"
    /\ \E ok \in BOOLEAN :
          wk_pc' = [wk_pc EXCEPT ![w] = IF ok THEN "loop" ELSE "failed"]
    /\ UNCHANGED <<replay_shutdown, workers_finished, wk_done, wk_dropped, wk_counted, main_pc>>

\* the head of 'work_loop: `while !probe.done()`, then the load of
\* replay_shutdown, drop_dataflow and break when it is false
WorkerCheck(w) ==
    /\ wk_pc[w] = "loop"
    /\ IF wk_done[w]
       THEN wk_pc' = [wk_pc EXCEPT ![w] = "count"] /\ UNCHANGED wk_dropped
       ELSE IF ~replay_shutdown
       THEN /\ wk_dropped' = [wk_dropped EXCEPT ![w] = TRUE]
            /\ wk_pc' = [wk_pc EXCEPT ![w] = "count"]
       ELSE wk_pc' = [wk_pc EXCEPT ![w] = "step"] /\ UNCHANGED wk_dropped
    /\ UNCHANGED <<replay_shutdown, workers_finished, wk_done, wk_counted, main_pc>>

\* `worker.step_or_park(Some(Duration::from_millis(500)))`
WorkerStep(w) ==
    /\ wk_pc[w] = "step"
    /\ \E outcome \in StepOutcomes :
          /\ wk_pc' = [wk_pc EXCEPT ![w] = IF outcome = "panic" THEN "panicked" ELSE "loop"]
          /\ wk_done' = [wk_done EXCEPT ![w] = @ \/ outcome = "probe_done"]
          /\ replay_shutdown' = (replay_shutdown /\ outcome # "source_error")
    /\ UNCHANGED <<workers_finished, wk_dropped, wk_counted, main_pc>>

\* `moved_workers_finished.fetch_add(1, Ordering::Release)` and `Ok(())`
WorkerCount(w) ==
    /\ wk_pc[w] = "count"
    /\ workers_finished' = workers_finished + 1
    /\ wk_counted' = [wk_counted EXCEPT ![w] = @ + 1]
    /\ wk_pc' = [wk_pc EXCEPT ![w] = "returned"]
    /\ UNCHANGED <<replay_shutdown, wk_done, wk_dropped, main_pc>>

WorkerBuilds == \E w \in AnalyzerWorkers : WorkerBuild(w)

WorkerChecks == \E w \in AnalyzerWorkers : WorkerCheck(w)

WorkerSteps == \E w \in AnalyzerWorkers : WorkerStep(w)

WorkerCounts == \E w \in AnalyzerWorkers : WorkerCount(w)

\* wait_for_input leaves its loop (all workers finished, `running` found
\* false, or the user's input) and stores false into `running`
MainStoresNotRunning ==
    /\ main_pc = "wait"
    /\ replay_shutdown' = FALSE
    /\ main_pc' = "stored"
    /\ UNCHANGED <<workers_finished, wk_pc, wk_done, wk_dropped, wk_counted>>

\* `worker_guards.join()` returns once every worker thread has ended
MainJoins ==
    /\ main_pc = "stored"
    /\ \A w \in AnalyzerWorkers : wk_pc[w] \in WorkerEnded
    /\ main_pc' = "joined"
    /\ UNCHANGED <<replay_shutdown, workers_finished, wk_pc, wk_done, wk_dropped, wk_counted>>

----------------------------------------------------------------------------
(* The work list of the timely event extractor: the operator closure of    *)
(* extract_timely_info (src/src/dataflow/timely_source.rs)                 *)

\* the events of a batch, as far as the work loop is concerned: the time,
\* and the kind, which decides the fuel exerted
WorkEvents == [t : 1 .. 2, kind : {"Channels", "Park"}]

\* the batches the input delivers: a capability at the least time and one
\* or two events
BatchShapes == {<<e>> : e \in WorkEvents}
                  \cup {<<e, f>> : e \in WorkEvents, f \in WorkEvents}

\* the fuel one event exerts: 1 in process_timely_event when the worker
\* timeline is built, 3 in the Channels arm, none in the empty arm
EventEffort(e, with_timeline) ==
    (IF with_timeline THEN 1 ELSE 0) + (IF e.kind = "Channels" THEN 3 ELSE 0)

RECURSIVE BatchEffort(_, _)
BatchEffort(events, with_timeline) ==
    IF events = <<>> THEN 0
    ELSE EventEffort(Head(events), with_timeline)
            + BatchEffort(Tail(events), with_timeline)

\* `capability_time.join(&time)`
SessionTime(b, i) ==
    IF b.events[i].t > b.cap THEN b.events[i].t ELSE b.cap

\* `capabilities.downgrade(&session_time)` panics when the capabilities,
\* left at the previous event's session time, are asked for an earlier time
DrainPanics(b) ==
    \E i \in 1 .. Len(b.events) - 1 : SessionTime(b, i + 1) < SessionTime(b, i)

\* 'work_loop: while the fuel is not exhausted, pop the front batch and
\* drain all of it; stop on an empty list. done collects the ids of the
\* drained batches in the order of draining.
RECURSIVE WorkLoop(_, _, _, _)
WorkLoop(list, f, done, with_timeline) ==
    IF FuelIsExhausted(f) \/ list = <<>>
    THEN [list |-> list, fuel |-> f, done |-> done, panicked |-> FALSE]
    ELSE IF DrainPanics(Head(list))
    THEN [list |-> Tail(list), fuel |-> f, done |-> done, panicked |-> TRUE]
    ELSE WorkLoop(Tail(list),
                  FuelExert(f, BatchEffort(Head(list).events, with_timeline)),
                  Append(done, Head(list).id),
                  with_timeline)

WorkListInit ==
    /\ wl_input = <<>>
    /\ work_list = <<>>
    /\ wl_fuel = [default |-> MaxFuel, left |-> MaxFuel]
    /\ wl_timeline \in BOOLEAN
    /\ wl_done = <<>>
    /\ wl_arrived = 0
    /\ wl_activated = FALSE
    /\ wl_panicked = FALSE

\* the operator as built, never given a batch
WorkListIdle ==
    /\ wl_input = <<>>
    /\ work_list = <<>>
    /\ wl_fuel = [default |-> MaxFuel, left |-> MaxFuel]
    /\ wl_timeline = FALSE
    /\ wl_done = <<>>
    /\ wl_arrived = 0
    /\ wl_activated = FALSE
    /\ wl_panicked = FALSE

\* the replay driver gives a batch to the operator's input
WorkBatchArrives ==
    /\ ~wl_panicked
    /\ wl_arrived < MaxBatches
    /\ \E events \in BatchShapes :
          wl_input' = Append(wl_input,
                             [id |-> wl_arrived + 1, cap |-> 0, events |-> events])
    /\ wl_arrived' = wl_arrived + 1
    /\ UNCHANGED <<work_list, wl_fuel, wl_timeline, wl_done, wl_activated, wl_panicked>>

\* one call of the closure `move |_frontiers|`, scheduled because a batch is
\* on the input or because the operator asked for it: the input's batches
\* are pushed to the back of work_list, the fuel is reset, the work loop
\* runs, and the activator is used when batches are left
ExtractorRuns ==
    /\ ~wl_panicked
    /\ wl_input # <<>> \/ wl_activated
    /\ LET r == WorkLoop(work_list \o wl_input, FuelReset(wl_fuel), wl_done,
                         wl_timeline)
       IN /\ work_list' = r.list
          /\ wl_fuel' = r.fuel
          /\ wl_done' = r.done
          /\ wl_panicked' = r.panicked
          /\ wl_activated' = (~r.panicked /\ r.list # <<>>)
    /\ wl_input' = <<>>
    /\ UNCHANGED <<wl_timeline, wl_arrived>>

----------------------------------------------------------------------------
(* make_streams (src/src/replay_loading.rs): the sources are dealt to the  *)
(* workers and each worker's bundle is sent on its own channel             *)

\* `readers[idx % num_workers].push(source)`: the worker of position idx
AssignedToFirst(idx, num_workers) == 0

AssignedWorker(idx, num_workers) == idx % num_workers

\* `crossbeam_channel::bounded(1)`
ChannelCapacity == 1

StreamsInit ==
    /\ ms_kind \in {"Rkyv", "Abomonation"}
    /\ ms_num_workers \in 1 .. NumWorkers + 1
    /\ ms_sources \in 0 .. MaxStreams
    /\ ms_idx = 0
    /\ ms_readers = [w \in 0 .. ms_num_workers - 1 |-> <<>>]
    /\ ms_channels = [w \in 0 .. ms_num_workers - 1 |-> <<>>]
    /\ ms_received = [w \in 0 .. ms_num_workers - 1 |-> <<>>]
    /\ ms_worker = 0
    /\ ms_pc = "distribute"

\* make_streams not called
StreamsIdle ==
    /\ ms_kind = "Rkyv"
    /\ ms_num_workers = 1
    /\ ms_sources = 0
    /\ ms_idx = 0
    /\ ms_readers = [w \in {0} |-> <<>>]
    /\ ms_channels = [w \in {0} |-> <<>>]
    /\ ms_received = [w \in {0} |-> <<>>]
    /\ ms_worker = 0
    /\ ms_pc = "idle"

\* one round of `for (idx, source) in rkyv.into_iter().enumerate()` (the
\* Abomonation arm is the same loop); sources are named by their position
StreamsDistribute ==
    /\ ms_pc = "distribute"
    /\ ms_idx < ms_sources
    /\ ms_readers' = [ms_readers EXCEPT
                         ![AssignedWorker(ms_idx, ms_num_workers)] = Append(@, ms_idx)]
    /\ ms_idx' = ms_idx + 1
    /\ UNCHANGED <<ms_kind, ms_num_workers, ms_sources, ms_channels, ms_received,
                   ms_worker, ms_pc>>

\* the loop is over: the channels are created
StreamsCreateChannels ==
    /\ ms_pc = "distribute"
    /\ ms_idx = ms_sources
    /\ ms_pc' = "send"
    /\ UNCHANGED <<ms_kind, ms_num_workers, ms_sources, ms_idx, ms_readers,
                   ms_channels, ms_received, ms_worker>>

\* one round of `for (worker, (sender, bundle)) in senders.zip(readers)`:
\* `sender.send(bundle)` waits for room when the channel is full; after the
\* last round make_streams returns the receivers
StreamsSend ==
    /\ ms_pc = "send"
    /\ IF ms_worker = ms_num_workers
       THEN ms_pc' = "done" /\ UNCHANGED <<ms_channels, ms_worker>>
       ELSE IF Len(ms_channels[ms_worker]) >= ChannelCapacity
       THEN ms_pc' = "blocked" /\ UNCHANGED <<ms_channels, ms_worker>>
       ELSE /\ ms_channels' = [ms_channels EXCEPT
                                  ![ms_worker] = Append(@, ms_readers[ms_worker])]
            /\ ms_worker' = ms_worker + 1
            /\ UNCHANGED ms_pc
    /\ UNCHANGED <<ms_kind, ms_num_workers, ms_sources, ms_idx, ms_readers,
                   ms_received>>

\* `event_receivers[worker.index()].recv()` in the worker closure, which
\* runs after make_streams has returned
StreamsWorkerReceives ==
    /\ ms_pc = "done"
    /\ \E w \in 0 .. ms_num_workers - 1 :
          /\ ms_channels[w] # <<>>
          /\ ms_received' = [ms_received EXCEPT ![w] = Append(@, Head(ms_channels[w]))]
          /\ ms_channels' = [ms_channels EXCEPT ![w] = Tail(@)]
    /\ UNCHANGED <<ms_kind, ms_num_workers, ms_sources, ms_idx, ms_readers,
                   ms_worker, ms_pc>>

----------------------------------------------------------------------------
(* Specifications *)

ReaderFrame ==
    UNCHANGED <<driverVars, spanVars, clockVars, extractVars, diffVars, rewireVars,
                statsVars, workerVars, workListVars, streamVars>>

DriverFrame ==
    UNCHANGED <<readerVars, spanVars, clockVars, extractVars, diffVars, rewireVars,
                statsVars, workerVars, workListVars, streamVars>>

SpanFrame ==
    UNCHANGED <<readerVars, driverVars, clockVars, extractVars, diffVars, rewireVars,
                statsVars, workerVars, workListVars, streamVars>>

ExtractFrame ==
    UNCHANGED <<readerVars, driverVars, diffVars, rewireVars, statsVars, workerVars, workListVars, streamVars>>

TimelineFrame ==
    UNCHANGED <<readerVars, driverVars, extractVars, rewireVars, statsVars, workerVars, workListVars, streamVars>>

RewireFrame ==
    UNCHANGED <<readerVars, driverVars, spanVars, clockVars, extractVars, diffVars,
                statsVars, workerVars, workListVars, streamVars>>

StatsFrame ==
    UNCHANGED <<readerVars, driverVars, spanVars, clockVars, extractVars, diffVars,
                rewireVars, workerVars, workListVars, streamVars>>

WorkersFrame ==
    UNCHANGED <<readerVars, driverVars, spanVars, clockVars, extractVars, diffVars,
                rewireVars, statsVars, workListVars, streamVars>>

WorkListFrame ==
    UNCHANGED <<readerVars, driverVars, spanVars, clockVars, extractVars, diffVars,
                rewireVars, statsVars, workerVars, streamVars>>

StreamsFrame ==
    UNCHANGED <<readerVars, driverVars, spanVars, clockVars, extractVars, diffVars,
                rewireVars, statsVars, workerVars, workListVars>>

ReaderNext == ReaderStep /\ ReaderFrame

DriverNext ==
    \/ StoreNotRunning /\ DriverFrame
    \/ DriverBegin /\ DriverFrame
    \/ DriverPoll /\ DriverFrame
    \/ DriverEnd /\ DriverFrame

SpanNext == SpanStep /\ SpanFrame

ExtractNext ==
    \/ ExtractStep /\ ExtractFrame
    \/ ExtractInputEnds /\ ExtractFrame

TimelineNext ==
    \/ TimelineTimelyStep /\ TimelineFrame
    \/ TimelineDiffStep /\ TimelineFrame

RewireNext ==
    \/ RewireChannelArrives /\ RewireFrame
    \/ RewireSubgraphArrives /\ RewireFrame

StreamsNext ==
    \/ StreamsDistribute /\ StreamsFrame
    \/ StreamsCreateChannels /\ StreamsFrame
    \/ StreamsSend /\ StreamsFrame
    \/ StreamsWorkerReceives /\ StreamsFrame

WorkListNext ==
    \/ WorkBatchArrives /\ WorkListFrame
    \/ ExtractorRuns /\ WorkListFrame

WorkersNext ==
    \/ WorkerBuilds /\ WorkersFrame
    \/ WorkerChecks /\ WorkersFrame
    \/ WorkerSteps /\ WorkersFrame
    \/ WorkerCounts /\ WorkersFrame
    \/ MainStoresNotRunning /\ WorkersFrame
    \/ MainJoins /\ WorkersFrame

StatsNext ==
    \/ StatsOperatesArrives /\ StatsFrame
    \/ StatsChannelArrives /\ StatsFrame
    \/ StatsShutdownArrives /\ StatsFrame

InitReader ==
    /\ ReaderInit /\ DriverIdle /\ SpanIdle
    /\ ClockInit(FALSE) /\ ExtractIdle /\ DiffIdle /\ RewireIdle /\ StatsIdle
    /\ WorkersIdle /\ WorkListIdle /\ StreamsIdle

InitDriver ==
    /\ DriverInit /\ ReaderIdle /\ SpanIdle
    /\ ClockInit(FALSE) /\ ExtractIdle /\ DiffIdle /\ RewireIdle /\ StatsIdle
    /\ WorkersIdle /\ WorkListIdle /\ StreamsIdle

InitSpan ==
    /\ SpanInit /\ ReaderIdle /\ DriverIdle
    /\ ClockInit(FALSE) /\ ExtractIdle /\ DiffIdle /\ RewireIdle /\ StatsIdle
    /\ WorkersIdle /\ WorkListIdle /\ StreamsIdle

\* the extractor given any event times
InitExtract ==
    /\ ExtractInit /\ ClockInit(FALSE) /\ SpanInit
    /\ ReaderIdle /\ DriverIdle /\ DiffIdle /\ RewireIdle /\ StatsIdle
    /\ WorkersIdle /\ WorkListIdle /\ StreamsIdle

\* the extractor fed by source workers whose clocks never run backwards
InitExtractOrdered ==
    /\ ExtractInit /\ ClockInit(TRUE) /\ SpanInit
    /\ ReaderIdle /\ DriverIdle /\ DiffIdle /\ RewireIdle /\ StatsIdle
    /\ WorkersIdle /\ WorkListIdle /\ StreamsIdle

\* worker_timeline fed by source workers whose clocks never run backwards
InitTimeline ==
    /\ DiffInit /\ ClockInit(TRUE) /\ SpanInit
    /\ ReaderIdle /\ DriverIdle /\ ExtractIdle /\ RewireIdle /\ StatsIdle
    /\ WorkersIdle /\ WorkListIdle /\ StreamsIdle

\* the channel rewirer, its input collections growing one record at a time
InitRewire ==
    /\ RewireInit /\ ReaderIdle /\ DriverIdle /\ SpanIdle
    /\ ClockInit(FALSE) /\ ExtractIdle /\ DiffIdle /\ StatsIdle
    /\ WorkersIdle /\ WorkListIdle /\ StreamsIdle

\* the statistics of the operators and channels collected so far
InitStats ==
    /\ StatsInit /\ ReaderIdle /\ DriverIdle /\ SpanIdle
    /\ ClockInit(FALSE) /\ ExtractIdle /\ DiffIdle /\ RewireIdle
    /\ WorkersIdle /\ WorkListIdle /\ StreamsIdle

\* the worker threads started by timely::execute and the main thread in
\* wait_for_input
InitWorkers ==
    /\ WorkersInit /\ ReaderIdle /\ DriverIdle /\ SpanIdle
    /\ ClockInit(FALSE) /\ ExtractIdle /\ DiffIdle /\ RewireIdle
    /\ StatsIdle /\ WorkListIdle /\ StreamsIdle

\* the extractor with an empty work list, before the first batch
InitWorkList ==
    /\ WorkListInit /\ ReaderIdle /\ DriverIdle /\ SpanIdle
    /\ ClockInit(FALSE) /\ ExtractIdle /\ DiffIdle /\ RewireIdle
    /\ StatsIdle /\ WorkersIdle /\ StreamsIdle

\* make_streams called with some number of sources and workers
InitStreams ==
    /\ StreamsInit /\ ReaderIdle /\ DriverIdle /\ SpanIdle
    /\ ClockInit(FALSE) /\ ExtractIdle /\ DiffIdle /\ RewireIdle
    /\ StatsIdle /\ WorkersIdle /\ WorkListIdle

SpecReader == InitReader /\ [][ReaderNext]_vars

SpecDriver == InitDriver /\ [][DriverNext]_vars

SpecSpan == InitSpan /\ [][SpanNext]_vars

SpecExtract == InitExtract /\ [][ExtractNext]_vars

SpecExtractOrdered == InitExtractOrdered /\ [][ExtractNext]_vars

SpecTimeline == InitTimeline /\ [][TimelineNext]_vars

SpecRewire == InitRewire /\ [][RewireNext]_vars

SpecStats == InitStats /\ [][StatsNext]_vars

\* every thread that can take a step eventually takes one
WorkersFairness ==
    /\ \A w \in AnalyzerWorkers :
          /\ WF_vars(WorkerBuild(w) /\ WorkersFrame)
          /\ WF_vars(WorkerCheck(w) /\ WorkersFrame)
          /\ WF_vars(WorkerStep(w) /\ WorkersFrame)
          /\ WF_vars(WorkerCount(w) /\ WorkersFrame)
    /\ WF_vars(MainJoins /\ WorkersFrame)

SpecWorkers == InitWorkers /\ [][WorkersNext]_vars /\ WorkersFairness

SpecStreams == InitStreams /\ [][StreamsNext]_vars

\* timely runs an operator that has input or has asked to be activated
SpecWorkList ==
    InitWorkList /\ [][WorkListNext]_vars /\ WF_vars(ExtractorRuns /\ WorkListFrame)

----------------------------------------------------------------------------
(* Claims about EventReader::next (checked under SpecReader)               *)

\* C3: for every split of the stream's bytes across reads, the events
\* returned by successive calls of next are the stream's complete frames, in
\* order, each once; no call returns Err; the bytes not yet returned as a
\* frame stay buffered (nothing is lost or duplicated by the shift), and once
\* EOF is observed every complete frame has been returned.
C3_FramesInOrderOnce ==
    /\ last # "err"
    /\ Len(delivered) <= Len(srcFrames)
    /\ delivered = Take(srcFrames, Len(delivered))
    /\ Unconsumed \o Drop(stream, rpos) = Drop(stream, Len(Flatten(delivered)))
    /\ peer_finished => delivered = srcFrames

\* a stream of two or more frames, some read ended inside a frame, a partial
\* frame was carried over a shift, and the stream was read to its end
C3_Witness ==
    /\ peer_finished
    /\ rhist.splitInside
    /\ rhist.partialKept
    /\ Len(delivered) >= 2

\* C4: the call that sets *is_finished is made after a read returned 0
\* bytes and after a later call returned Ok(None).
C4_FinishedOnlyAfterEofAndNone ==
    [][(~is_finished /\ is_finished') =>
          (rhist.eofRead /\ rhist.nonesAfterEof >= 1)]_vars

C4_Witness == is_finished /\ rhist.eofRead /\ Len(delivered) >= 1

\* C5: whenever next returned Ok(None) and EOF has not been observed, the
\* unconsumed part of the buffer holds no complete frame.
C5_NoneMeansNoCompleteFrame ==
    (last = "none" /\ ~peer_finished) => Decode(Unconsumed) = <<>>

\* C6: a call of next whose read failed with an I/O error returns Err.
C6_ReadErrorSurfaced == rhist.readFailed => last = "err"

----------------------------------------------------------------------------
(* Claims about the replay driver (checked under SpecDriver)               *)

\* C1: when is_running is false as an activation begins, at the end of that
\* activation the operator holds no capability at any time (its initial
\* capability, the N-1 inflation and all Progress updates read are cancelled
\* by the negative progress it reported) and it returned "no reactivation".
C1_StoppedDriverHoldsNothing ==
    (pc = "idle" /\ ret # "never" /\ dh.a_beganStopped) =>
        /\ \A t \in Time : Held[t] = 0
        /\ ret = "no_reactivation"

\* C2: when a source's next returned Err in this activation, is_running is
\* false, no further next is called in the activation, and the activation
\* ends in the termination branch: the antichain is released (its frontier
\* is empty) and the operator returns "no reactivation".
C2_ErrStopsAndTerminates ==
    dh.a_err =>
        /\ ~is_running
        /\ dh.a_pollsAfterErr = 0
        /\ pc # "loop"
        /\ pc = "idle" => (ret = "no_reactivation" /\ Frontier(antichain) = {})

\* the first of two sources failed; the second was not polled
C2_Witness ==
    /\ dh.a_err
    /\ pc = "idle"
    /\ NumSources >= 2
    /\ stream_idx = 1
    /\ ~dh.a_beganStopped

\* C7: an activation returns "reactivate" and calls activate_after once
\* exactly when is_running was true and some stream is not finished;
\* otherwise it returns "no reactivation" and schedules nothing.
C7_ReactivateIff ==
    (pc = "idle" /\ ret # "never") =>
        /\ ret \in {"reactivate", "no_reactivation"}
        /\ (ret = "reactivate" /\ dh.a_sched = 1)
              <=> (dh.a_endRunning /\ ~AllStreamsFinished)
        /\ ret = "no_reactivation" => dh.a_sched = 0

\* a second activation that asks for another one, with one stream finished
C7_Witness ==
    /\ pc = "idle"
    /\ ret = "reactivate"
    /\ dh.prevRet = "reactivate"
    /\ dh.a_sched = 1
    /\ \E i \in 1 .. NumSources : streams_finished[i]

\* C8: fuel is reset when an activation starts, and once the fuel is
\* exhausted after an event was handled no further next is called (on this
\* or a later source) in the same activation.
C8_FuelBoundsActivation ==
    /\ dh.a_pollsAfterExhaust = 0
    /\ dh.a_exhausted => pc # "loop"
    /\ (pc = "loop" /\ ~dh.a_polled) => fuel.left = fuel.default

\* fuel ran out on the first of two sources with events left on both
C8_Witness ==
    /\ dh.a_exhausted
    /\ pc = "idle"
    /\ NumSources >= 2
    /\ stream_idx = 1
    /\ event_streams[1] # <<>>
    /\ event_streams[2] # <<>>

\* C9: an activation that follows one that returned "no reactivation" emits
\* no message, leaves the net reported progress unchanged and returns
\* "no reactivation" again.
C9_ShutdownIdempotent ==
    (pc = "idle" /\ dh.prevRet = "no_reactivation") =>
        /\ dh.a_emitted = 0
        /\ internals = dh.prevInternals
        /\ ret = "no_reactivation"

----------------------------------------------------------------------------
(* Claims about the span correlator (checked under SpecSpan; C12 under     *)
(* SpecTimeline)                                                           *)

\* C10: for every (worker, span key), the STARTs inserted under the key equal
\* the duration records emitted for the key plus the entries still on its
\* stack, after any sequence of events the correlator survived.
C10_StartsAreClosedOnceOrOpen ==
    ~sp_panicked =>
        \A k \in SpanKeys :
            sh.starts[k] = sh.records[k] + Len(event_map[k])

\* C11: a STOP of a (worker, key) with open STARTs is paired with the most
\* recent of them: the step that handles it takes the last entry off the
\* key's stack, leaves every other entry of every stack in place, and emits
\* one record of that worker and kind whose start (time - duration) is the
\* start of the entry taken. Two nested spans of one key give two records.
C11_StopClosesMostRecentStart ==
    [][sh'.op = "remove" =>
          LET k == sh'.key
              stack == event_map[k]
          IN /\ stack # <<>>
             /\ event_map' = [event_map EXCEPT ![k] = Take(stack, Len(stack) - 1)]
             /\ Len(sp_out') = 1
             /\ sp_out'[1].worker = k[1]
             /\ sp_out'[1].partial = PartialOf(k[2])
             /\ sp_out'[1].time - sp_out'[1].duration = stack[Len(stack)].start
             /\ sh'.records[k] = sh.records[k] + 1]_vars

\* two Applications of one id were opened at times 1 and 2 by worker 0; the
\* STOP at 3 closed the inner one and the STOP at 4 has just closed the outer
\* one (duration 3)
C11_Witness ==
    /\ sh.op = "remove"
    /\ sh.key = <<0, KindApplication(1)>>
    /\ sh.starts[sh.key] = 2
    /\ sh.records[sh.key] = 2
    /\ sp_out = <<[worker |-> 0, partial |-> PartialOf(KindApplication(1)),
                   duration |-> 3, time |-> 4, cap |-> 4]>>

\* the entries on the stacks remove_referencing is to drain for operator op
ReferencingKeys(op) ==
    {k \in SpanKeys : k[2] \in {KindOperatorActivation(op), KindMerge(op)}}

RECURSIVE SumOver(_, _)
SumOver(f, S) ==
    IF S = {} THEN 0
    ELSE LET x == CHOOSE y \in S : TRUE IN f[x] + SumOver(f, S \ {x})

\* C12: the step that handles Shutdown(op) at time t emits, for every entry
\* with start s on an OperatorActivation{op} or Merge{op} stack, one record
\* of that kind with duration t - s and time t, emits nothing else, and
\* leaves those stacks empty.
C12_ShutdownDrainsReferencing ==
    [][sh'.op \in {"remove_referencing", "remove_referencing_overflow"} =>
          LET op == sh'.key[2].id
              t == sh'.time
              keys == ReferencingKeys(op)
          IN /\ \A k \in keys : event_map'[k] = <<>>
             /\ Len(sp_out') = SumOver([k \in keys |-> Len(event_map[k])], keys)
             /\ \A k \in keys : \A i \in 1 .. Len(event_map[k]) :
                   \E j \in 1 .. Len(sp_out') :
                      /\ sp_out'[j].partial = PartialOf(k[2])
                      /\ sp_out'[j].duration = t - event_map[k][i].start
                      /\ sp_out'[j].duration >= 0
                      /\ sp_out'[j].time = t]_vars

----------------------------------------------------------------------------
(* Claims about the timely event extractor (checked under SpecExtract;     *)
(* C18 and C19 under SpecExtractOrdered)                                   *)

\* C13: a Stop that finds no open Start of its (worker, key) emits nothing
\* and changes no open Start: a Schedule(Stop) that finds the activation
\* map's slot empty gives nothing to the extractor's outputs and leaves
\* lifespan_map and activation_map as they were; a stop of any kind that
\* finds the span correlator's stack empty gives nothing to the timeline
\* output and leaves event_map as it was.
C13_OrphanStopEmitsNothing ==
    [][sp_events' = sp_events + 1 =>
          LET w == eh'.key[1]
              e == eh'.ev
              kind == IF e.ev = "Schedule" THEN KindOperatorActivation(e.id)
                      ELSE KindPlain(e.ev)
          IN /\ (e = EvSchedule(e.id, FALSE) /\ activation_map[<<w, e.id>>] = None) =>
                   /\ ex_out' = <<>>
                   /\ activation_map' = activation_map
                   /\ lifespan_map' = lifespan_map
             /\ (/\ timeline
                 /\ e \in {EvSchedule(e.id, FALSE), EvPark(FALSE)}
                 /\ event_map[<<w, kind>>] = <<>>) =>
                   /\ sp_out' = <<>>
                   /\ event_map' = event_map]_vars

\* worker 0's Schedule(Stop) has just found nothing open in either store
\* while worker 1 has the same operator open in both
C13_Witness ==
    /\ eh.op = "stop_none"
    /\ sh.op = "remove_none"
    /\ eh.key = <<0, 1>>
    /\ activation_map[<<1, 1>>] # None
    /\ event_map[<<1, KindOperatorActivation(1)>>] # <<>>

\* C14: once the input has ended and the work list is drained, no span of
\* any kind is left on a stack of the event map, that is, no stored
\* capability is still held.
C14_NoCapabilityHeldAfterInputEnds ==
    ex_closed => \A k \in SpanKeys : event_map[k] = <<>>

\* C15: a Schedule(Stop) whose time is earlier than the Start in the
\* activation map's slot still gives one activation record, with duration 0,
\* and a stop or Shutdown whose time is earlier than the start of a span it
\* closes still gives that span's timeline record, with duration 0; neither
\* makes the operator fail.
C15_EarlierStopClampsToZero ==
    [][sp_events' = sp_events + 1 =>
          LET w == eh'.key[1]
              e == eh'.ev
              now == eh'.time
              slot == activation_map[<<w, e.id>>]
              kind == IF e.ev = "Park" THEN KindPlain("Park")
                      ELSE KindOperatorActivation(e.id)
              stack == event_map[<<w, kind>>]
          IN /\ (/\ e = EvSchedule(e.id, FALSE)
                 /\ slot # None
                 /\ slot[1] > now) =>
                   /\ ~ex_panicked'
                   /\ ~sp_panicked'
                   /\ ex_out' = <<[output |-> "activation_durations",
                                   key |-> <<w, e.id>>, start |-> slot[1],
                                   duration |-> 0]>>
             /\ (/\ timeline
                 /\ e \in {EvSchedule(e.id, FALSE), EvPark(FALSE), EvShutdown(e.id)}
                 /\ stack # <<>>
                 /\ stack[Len(stack)].start > now) =>
                   /\ ~ex_panicked'
                   /\ ~sp_panicked'
                   /\ \E j \in 1 .. Len(sp_out') :
                         /\ sp_out'[j].partial = PartialOf(kind)
                         /\ sp_out'[j].duration = 0]_vars

\* the lifespan records among those the last event gave
LifespansOut(out) == {j \in 1 .. Len(out) : out[j].output = "lifespans"}

ActivationsOut(out) ==
    {j \in 1 .. Len(out) : out[j].output = "activation_durations"}

\* C19: the step that handles a Schedule(op, Stop) of worker w at time t
\* while the activation map holds a Start at s for (w, op) emits exactly one
\* activation record, ((w, op), (s, t - s)), and clears the Start; and after
\* any sequence of events the activation records of (w, op) are as many as
\* its Start/Stop pairs (each Stop paired with the latest Start still open,
\* a Shutdown closing all that are open).
C19_ActivationPerStartStopPair ==
    /\ [][sp_events' = sp_events + 1 =>
            LET e == eh'.ev
                key == eh'.key
                now == eh'.time
            IN (e = EvSchedule(e.id, FALSE) /\ activation_map[key] # None) =>
                 /\ Cardinality(ActivationsOut(ex_out')) = 1
                 /\ \A j \in ActivationsOut(ex_out') :
                       /\ ex_out'[j].key = key
                       /\ ex_out'[j].start = activation_map[key][1]
                       /\ ex_out'[j].duration = now - activation_map[key][1]
                 /\ activation_map'[key] = None]_vars
    /\ [](\A k \in ExtractKeys : eh.acts[k] = eh.pairs[k])

----------------------------------------------------------------------------
(* Claims about worker_timeline (checked under SpecTimeline)               *)

\* C16: when a timely Shutdown(op) of worker w is handled at time t while a
\* differential Merge{op, complete = None} of w from time s <= t is open,
\* that step emits exactly one Merge{op} timeline record, with duration
\* t - s and time t, and no Merge span of (w, op) is open afterwards.
C16_ShutdownClosesMergeSpan ==
    [][(/\ sp_events' = sp_events + 1
        /\ dfh'.ev = EvShutdown(dfh'.ev.id)
        /\ diff_map[dfh'.key] # None
        /\ diff_map[dfh'.key][1] <= dfh'.time) =>
          LET out == sp_out' \o df_out'
              op == dfh'.ev.id
              merges == {j \in 1 .. Len(out) : out[j].partial = KindMerge(op)}
          IN /\ Cardinality(merges) = 1
             /\ \A j \in merges :
                   /\ out[j].duration = dfh'.time - diff_map[dfh'.key][1]
                   /\ out[j].time = dfh'.time
             /\ diff_map'[dfh'.key] = None
             /\ event_map'[<<dfh'.key[1], KindMerge(op)>>] = <<>>]_vars

\* C17: a differential Merge with complete = None leaves a Merge span open
\* for its (worker, operator) with the event's time as start; a Merge with
\* complete = Some, a MergeShortfall and a Drop that find a span open for
\* their (worker, operator) take it out and emit exactly one Merge record of
\* that worker, with duration event time - start and the event's time; with
\* no span open they emit nothing and change nothing.
C17_MergeSpansOpenAndClose ==
    [][(sp_events' = sp_events + 1 /\ dfh'.ev.ev \in {"Merge", "MergeShortfall", "Drop"}) =>
          LET e == dfh'.ev
              key == dfh'.key
              now == dfh'.time
              slot == diff_map[key]
          IN IF e = EvMerge(e.id, FALSE)
             THEN /\ diff_map' = [diff_map EXCEPT ![key] = Some(now)]
                  /\ df_out' = <<>>
             ELSE IF slot = None
             THEN /\ diff_map' = diff_map
                  /\ df_out' = <<>>
             ELSE /\ diff_map' = [diff_map EXCEPT ![key] = None]
                  /\ Len(df_out') = 1
                  /\ df_out'[1].worker = key[1]
                  /\ df_out'[1].partial = KindMerge(e.id)
                  /\ df_out'[1].duration = now - slot[1]
                  /\ df_out'[1].duration >= 0
                  /\ df_out'[1].time = now]_vars

\* a Drop of worker 0 has just closed the Merge span it opened two events
\* earlier, while worker 1's Merge span of the same operator stays open
C17_Witness ==
    /\ dfh.ev = EvDrop(1)
    /\ dfh.key = <<0, 1>>
    /\ Len(df_out) = 1
    /\ df_out[1].duration = 2
    /\ diff_map[<<0, 1>>] = None
    /\ diff_map[<<1, 1>>] # None

----------------------------------------------------------------------------
(* Claims about the channel rewirer (checked under SpecRewire)             *)

\* the raw channel c contributes to the output channel o: o is the Normal
\* channel of c, or c is a hop of o's traced path
Contributes(c, o) ==
    IF o.kind = "Normal" THEN o.channel_id = c.id
    ELSE \E i \in 1 .. Len(o.path) : o.path[i] = c.id

\* C20: whatever raw channels and subgraph addresses have been collected,
\* every raw channel contributes to exactly one channel of the output of
\* rewire_channels: its one Normal channel, or the one ScopeIngress or
\* ScopeEgress channel whose traced path it is a hop of.
C20_EveryChannelInExactlyOneOutput ==
    \A c \in rw_channels :
        Cardinality({o \in rw_out : Contributes(c, o)}) = 1

\* a Channel as the code emits it, without the traced path
Emitted(o) ==
    [kind |-> o.kind, channel_id |-> o.channel_id, source_addr |-> o.source_addr,
     target_addr |-> o.target_addr]

\* the input of C21: the one raw channel 9 of scope [0] from (1, 0) to (2, 0),
\* the operators being [0], [0,1] and [0,2], of which [0] alone is a subgraph
TwoLevelInput ==
    /\ rw_channels =
          {[id |-> 9, scope_addr |-> <<0>>, source |-> <<1, 0>>, target |-> <<2, 0>>]}
    /\ rw_subgraphs = {<<0>>}

NormalOf(c) ==
    [kind |-> "Normal", channel_id |-> c.id,
     source_addr |-> Append(c.scope_addr, c.source[1]),
     target_addr |-> Append(c.scope_addr, c.target[1])]

\* neither fully qualified endpoint address of c is a collected subgraph
EndsNotSubgraphs(c) ==
    /\ Append(c.scope_addr, c.source[1]) \notin rw_subgraphs
    /\ Append(c.scope_addr, c.target[1]) \notin rw_subgraphs

ChannelOf(id) == CHOOSE c \in rw_channels : c.id = id

\* the greatest length of an endpoint address of the collected channels
MaxDepth ==
    CHOOSE d \in 0 .. 8 :
        /\ \A c \in rw_channels : Len(c.scope_addr) + 1 <= d
        /\ rw_channels # {} => \E c \in rw_channels : Len(c.scope_addr) + 1 = d

\* C23: for the raw channels collected, the ingress and the egress
\* propagation loops each reach a fixed point; every hop of a propagated
\* path is a raw channel one scope level below the hop it was attached to
\* (ingress appends the deeper channel, egress puts it in front), so no
\* path is longer than the greatest depth of an address and the rounds that
\* add links are fewer than that depth.
C23_PropagationTerminates ==
    LET base == ChannelLinks(rw_channels)
        ingress == IngressIterate(base, base, 0)
        egress == EgressIterate(base, base, 0)
    IN /\ ingress.fixed /\ egress.fixed
       /\ ingress.rounds <= MaxDepth /\ egress.rounds <= MaxDepth
       /\ \A l \in ingress.links :
             /\ Len(l.path) <= MaxDepth
             /\ \A i \in 1 .. Len(l.path) - 1 :
                   Len(ChannelOf(l.path[i + 1]).scope_addr) =
                       Len(ChannelOf(l.path[i]).scope_addr) + 1
       /\ \A l \in egress.links :
             /\ Len(l.path) <= MaxDepth
             /\ \A i \in 1 .. Len(l.path) - 1 :
                   Len(ChannelOf(l.path[i]).scope_addr) =
                       Len(ChannelOf(l.path[i + 1]).scope_addr) + 1

\* channels of three nested scopes are collected, the egress loop took two
\* rounds to propagate a path of three hops out of the innermost scope and
\* the ingress loop propagated a path too
C23_Witness ==
    LET base == ChannelLinks(rw_channels)
        ingress == IngressIterate(base, base, 0)
        egress == EgressIterate(base, base, 0)
    IN /\ MaxDepth = 4
       /\ egress.fixed /\ egress.rounds = 2
       /\ \E l \in egress.links : Len(l.path) = 3
       /\ ingress.fixed /\ ingress.rounds >= 1

----------------------------------------------------------------------------
(* Claims about the dataflow statistics (checked under SpecStats)          *)

\* address a strictly extends address p
StrictlyExtends(a, p) == Len(a) > Len(p) /\ SubSeq(a, 1, Len(p)) = p

\* C24: in every emitted DataflowStats of worker w with address addr,
\* operators is the number of w's operators whose address strictly extends
\* addr, subgraphs the number of those that are subgraphs (so subgraphs <=
\* operators), and channels the number of w's channels whose scope_addr
\* strictly extends addr.
C24_DataflowStatsCounts ==
    \A d \in st_stats :
        LET below == {o \in st_operators :
                        o.worker = d.worker /\ StrictlyExtends(o.addr, d.addr)}
        IN /\ d.operators = Cardinality(below)
           /\ d.subgraphs =
                Cardinality({o \in below : <<o.worker, o.addr>> \in st_subgraphs})
           /\ d.subgraphs <= d.operators
           /\ d.channels =
                Cardinality({c \in st_channels :
                    c.worker = d.worker /\ StrictlyExtends(c.scope_addr, d.addr)})

\* worker 0's dataflow [0] has its record, with three operators below it,
\* one of them a subgraph, and two channels in scopes below it, while
\* worker 1 has operators and a channel of its own
C24_Witness ==
    /\ \E d \in st_stats :
          /\ d.worker = 0 /\ d.addr = <<0>>
          /\ d.operators = 3 /\ d.subgraphs = 1 /\ d.channels = 2
    /\ \E o \in st_operators : o.worker = 1 /\ o.addr = <<0, 2, 1>>
    /\ \E c \in st_channels : c.worker = 1 /\ c.scope_addr = <<0, 2>>

\* C25 as stated: an observed operator address of a worker is in the
\* subgraph set if and only if it is a strict prefix of some other observed
\* operator address of the same worker, and in the leaf set otherwise;
\* every observed address is in exactly one of the two sets.
C25_SubgraphIffStrictPrefix ==
    \A wa \in OperatorAddrs(st_operators) :
        LET prefix == \E other \in OperatorAddrs(st_operators) :
                          other[1] = wa[1] /\ StrictlyExtends(other[2], wa[2])
        IN /\ wa \in st_subgraphs <=> prefix
           /\ wa \in st_leaves <=> ~prefix
           /\ wa \in st_subgraphs <=> wa \notin st_leaves

\* C25 amended: an observed operator address of a worker is in the subgraph
\* set if and only if it is the immediate parent (the address without its
\* last element) of some observed operator address of the same worker, and
\* in the leaf set otherwise; every observed address is in exactly one of
\* the two sets, and the sets hold nothing but observed addresses.
C25_SubgraphIffImmediateParent ==
    /\ \A wa \in OperatorAddrs(st_operators) :
          LET parent == \E other \in OperatorAddrs(st_operators) :
                            /\ other[1] = wa[1]
                            /\ Len(other[2]) = Len(wa[2]) + 1
                            /\ StrictlyExtends(other[2], wa[2])
          IN /\ wa \in st_subgraphs <=> parent
             /\ wa \in st_leaves <=> ~parent
             /\ wa \in st_subgraphs <=> wa \notin st_leaves
    /\ st_subgraphs \cup st_leaves = OperatorAddrs(st_operators)

\* worker 0 has logged [0] and [0,2,1] but not [0,2], and its [0] is a
\* leaf; worker 1 has logged [0,2] and [0,2,1], and its [0,2] is a subgraph
C25_Witness ==
    /\ {o.addr : o \in {p \in st_operators : p.worker = 0}} = {<<0>>, <<0, 2, 1>>}
    /\ <<0, <<0>>>> \in st_leaves
    /\ <<1, <<0, 2>>>> \in st_subgraphs
    /\ <<1, <<0, 2, 1>>>> \in st_leaves

----------------------------------------------------------------------------
(* Claims about the worker threads (checked under SpecWorkers)             *)

\* C26: no worker increments workers_finished more than once and the count
\* never exceeds the number of workers; once `running` is false every
\* worker leaves its work loop and increments workers_finished, so the
\* count eventually equals the number of workers; and the join of the main
\* thread, after it has stored false, completes.
C26_AllWorkersFinish ==
    /\ [](workers_finished <= NumWorkers)
    /\ [](\A w \in AnalyzerWorkers : wk_counted[w] <= 1)
    /\ (~replay_shutdown) ~> (workers_finished = NumWorkers)
    /\ (main_pc = "stored") ~> (main_pc = "joined")

----------------------------------------------------------------------------
(* Claims about the extractor's work list (checked under SpecWorkList)     *)

\* the ids of the batches in a sequence of batches
BatchIds(batches) == {batches[i].id : i \in 1 .. Len(batches)}

\* C27: the extractor drains the batches in the order of their arrival,
\* each once; when a call returns with batches left on the work list it has
\* asked to be activated again; no batch that arrived is dropped (each is
\* on the input, on the work list or drained); and every batch that arrived
\* is eventually drained.
C27_EveryBatchProcessedInOrder ==
    /\ [](\A i \in 1 .. Len(wl_done) : wl_done[i] = i)
    /\ []((work_list # <<>> /\ ~wl_panicked) => wl_activated)
    /\ [](\A id \in 1 .. wl_arrived :
             \/ id \in BatchIds(wl_input) \cup BatchIds(work_list)
             \/ \E i \in 1 .. Len(wl_done) : wl_done[i] = id)
    /\ \A id \in 1 .. MaxBatches :
          (wl_arrived >= id) ~> (\E i \in 1 .. Len(wl_done) : wl_done[i] = id)

----------------------------------------------------------------------------
(* Claims about make_streams (checked under SpecStreams)                   *)

StreamWorkers == 0 .. ms_num_workers - 1

\* the positions in a bundle
BundleSet(bundle) == {bundle[i] : i \in 1 .. Len(bundle)}

\* C28: make_streams gives the source at position i to worker
\* i mod num_workers; once the sources are dealt every source is in exactly
\* one bundle and the bundles' sizes differ by at most one; no send waits;
\* and every worker receives exactly one bundle, its own, possibly empty.
C28_RoundRobinBundles ==
    /\ \A w \in StreamWorkers : \A i \in BundleSet(ms_readers[w]) :
          w = i % ms_num_workers
    /\ ms_pc \in {"send", "done"} =>
          /\ \A i \in 0 .. ms_sources - 1 :
                Cardinality({w \in StreamWorkers :
                    \E k \in 1 .. Len(ms_readers[w]) : ms_readers[w][k] = i}) = 1
          /\ \A w \in StreamWorkers :
                Cardinality(BundleSet(ms_readers[w])) = Len(ms_readers[w])
          /\ \A v, w \in StreamWorkers :
                Len(ms_readers[v]) - Len(ms_readers[w]) <= 1
    /\ ms_pc # "blocked"
    /\ \A w \in StreamWorkers :
          /\ Len(ms_received[w]) + Len(ms_channels[w]) <= 1
          /\ ms_pc = "done" => ms_received[w] \o ms_channels[w] = <<ms_readers[w]>>

\* three sources and two workers: worker 0 has received positions 0 and 2,
\* worker 1 position 1
C28_Witness ==
    /\ ms_pc = "done"
    /\ ms_num_workers = 2
    /\ ms_sources = 3
    /\ ms_received = [w \in {0, 1} |-> IF w = 0 THEN << <<0, 2>> >> ELSE << <<1>> >>]

----------------------------------------------------------------------------
(* Further claims about the replay driver (checked under SpecDriver)       *)

\* C29: the driver adds N-1 at the minimum time to its internal progress
\* when its first activation begins, N being the number of sources; until
\* then no source has been polled and nothing has been reported; once
\* started it stays started, and the beginning of a later activation
\* leaves the internal progress as it is.
C29_InflatesOnceOnFirstActivation ==
    /\ [](~started =>
             /\ ret = "never" /\ pc = "idle" /\ ~dh.a_polled
             /\ internals = Zero /\ produceds = 0)
    /\ [][/\ started => started'
          /\ (pc = "idle" /\ pc' = "loop" /\ ~started) =>
                /\ started'
                /\ internals' = [internals EXCEPT ![0] = @ + (NumSources - 1)]
                /\ event_streams' = event_streams
          /\ (pc = "idle" /\ pc' = "loop" /\ started) => internals' = internals]_vars

\* a second activation of a driver of two or more sources has begun
C29_Witness ==
    /\ NumSources >= 2
    /\ started
    /\ pc = "loop"
    /\ dh.prevRet # "never"
    /\ ~dh.a_inflated
    /\ internals = dh.prevInternals

\* C30: from the first activation's inflation up to the release step, the
\* frontier of the driver's antichain is the frontier of the capabilities
\* the operator holds: its initial capability, the N-1 of the inflation
\* and the Progress updates read so far.
C30_AntichainIsHeldFrontier ==
    (started /\ pc \in {"loop", "end"}) => Frontier(antichain) = Frontier(Held)

----------------------------------------------------------------------------
(* Further claims about the channel rewirer (checked under SpecRewire)     *)

\* the link of a raw channel: its endpoints as (address, port)
LinkOf(c) == CHOOSE l \in ChannelLinks({c}) : TRUE

\* inner starts at the boundary of the scope outer ends at, on outer's port
Bridges(outer, inner) ==
    /\ outer # inner
    /\ LinkOf(inner).source
          = <<Append(LinkOf(outer).target[1], 0), LinkOf(outer).target[2]>>

\* C31: when the channels collected are an outer channel from S to (T, p)
\* and an inner channel from (T ++ [0], p) to X, the output has the channel
\* ScopeIngress{channel_id = the outer channel's id, source_addr = S,
\* target_addr = X}.
C31_IngressBridgesBoundary ==
    \A outer \in rw_channels : \A inner \in rw_channels :
        (rw_channels = {outer, inner} /\ Bridges(outer, inner)) =>
            \E ch \in rw_out :
                /\ ch.kind = "ScopeIngress"
                /\ ch.channel_id = outer.id
                /\ ch.source_addr = LinkOf(outer).source[1]
                /\ ch.target_addr = LinkOf(inner).target[1]

\* the propagated links of the ingress pass for the channels collected
PropagatedIngress == IngressLinks(ChannelLinks(rw_channels))

\* the ScopeIngress channels of the output
IngressOut == {ch \in rw_out : ch.kind = "ScopeIngress"}

\* the (address, port) an emitted channel's path starts at
SourceKey(ch) == LinkOf(ChannelOf(ch.path[1])).source

\* C32: every ScopeIngress channel emitted comes from a propagated link of
\* two or more channel ids that is a longest one of its (source address,
\* source port); its target_addr is that link's target and its channel_id
\* the first id of the path; a source emits at most one channel, emits one
\* when it has a path of two or more ids, and none otherwise.
C32_LongestPathPerSource ==
    /\ \A ch \in IngressOut :
          /\ Len(ch.path) >= 2
          /\ ch.channel_id = ch.path[1]
          /\ \E l \in PropagatedIngress :
                /\ l.source = SourceKey(ch) /\ l.path = ch.path
                /\ l.source[1] = ch.source_addr /\ l.target[1] = ch.target_addr
          /\ \A m \in PropagatedIngress :
                m.source = SourceKey(ch) => Len(m.path) <= Len(ch.path)
    /\ \A k \in {l.source : l \in PropagatedIngress} :
          /\ Cardinality({ch \in IngressOut : SourceKey(ch) = k}) <= 1
          /\ (\E l \in PropagatedIngress : l.source = k /\ Len(l.path) >= 2)
                <=> (\E ch \in IngressOut : SourceKey(ch) = k)

\* one source has propagated paths of two and of three ids, and the channel
\* emitted for it has the path of three
C32_Witness ==
    \E ch \in IngressOut :
        /\ Len(ch.path) = 3
        /\ \E m \in PropagatedIngress : m.source = SourceKey(ch) /\ Len(m.path) = 2
        /\ \E m \in PropagatedIngress : m.source = SourceKey(ch) /\ Len(m.path) = 1

\* C37: when an activation of the driver has returned, the number of
\* records it gave to the output in that activation has been added to the
\* operator's produced progress, whether it asked for reactivation or
\* terminated.
C37_EmittedCountIsReported ==
    (pc = "idle" /\ ret # "never") => dh.a_reported = dh.a_emitted

\* C38 (checked under SpecStats): every top-level operator collected that
\* has a lifespan has a DataflowStats record, whatever its counts, zero
\* included.
C38_StatsForEveryDataflow ==
    \A d \in st_operators : \A l \in st_lifespans :
        (IsTopLevel(d.addr) /\ l.worker = d.worker /\ l.id = d.id) =>
            \E s \in st_stats : s.worker = d.worker /\ s.id = d.id

----------------------------------------------------------------------------
(* Further claims about worker_timeline (checked under SpecTimeline)       *)

\* the last element of a non-empty sequence
Last(seq) == seq[Len(seq)]

----------------------------------------------------------------------------
(* Further claims about the span correlator (checked under SpecSpan)       *)

\* the records of recs that carry worker w
RecordsOfWorker(recs, w) ==
    Cardinality({i \in 1 .. Len(recs) : recs[i].worker = w})

\* C34: the step that handles a Shutdown from worker w leaves the stacks of
\* every other worker's keys as they were, and the records it emits carry,
\* for each worker, as many records as entries were taken off that worker's
\* stacks.
C34_ShutdownTouchesOwnWorkerOnly ==
    [][(sh'.ev.ev = "Shutdown" /\ sp_events' = sp_events + 1) =>
          LET w == sh'.key[1]
          IN /\ \A k \in SpanKeys : k[1] # w => event_map'[k] = event_map[k]
             /\ \A v \in Workers :
                   RecordsOfWorker(sp_out', v) =
                       SumOver([k \in SpanKeys |->
                                   Len(event_map[k]) - Len(event_map'[k])],
                               {k \in SpanKeys : k[1] = v})]_vars

----------------------------------------------------------------------------
(* Further claims about the timely event extractor (checked under          *)
(* SpecExtractOrdered, C36 under SpecWorkList)                             *)

\* C35: the activation map has one slot per (worker, operator). A Schedule
\* Start puts its time into the slot, replacing a Start that was open, and
\* emits no activation record; a Stop that finds the slot filled emits one
\* record measured from the time in the slot and empties it, a Stop that
\* finds it empty emits none; a Shutdown empties the slot and emits no
\* activation record.
C35_OneOpenStartPerOperator ==
    [][sp_events' = sp_events + 1 =>
          LET e == eh'.ev
              key == eh'.key
              now == eh'.time
          IN /\ e = EvSchedule(e.id, TRUE) =>
                   /\ activation_map' = [activation_map EXCEPT ![key] = Some(now)]
                   /\ ActivationsOut(ex_out') = {}
             /\ (e = EvSchedule(e.id, FALSE) /\ activation_map[key] = None) =>
                   /\ activation_map' = activation_map
                   /\ ActivationsOut(ex_out') = {}
             /\ (e = EvSchedule(e.id, FALSE) /\ activation_map[key] # None) =>
                   /\ activation_map' = [activation_map EXCEPT ![key] = None]
                   /\ Cardinality(ActivationsOut(ex_out')) = 1
                   /\ \A j \in ActivationsOut(ex_out') :
                         ex_out'[j] = ActivationRecord(key, activation_map[key][1], now)
             /\ e.ev = "Shutdown" =>
                   /\ activation_map' = [activation_map EXCEPT ![key] = None]
                   /\ ActivationsOut(ex_out') = {}]_vars

\* Start, Start, Stop, Stop of one operator: two Stops followed two Starts,
\* one activation record was emitted, and the last Stop found the slot empty
C35_Witness ==
    \E key \in ExtractKeys :
        /\ eh.key = key
        /\ eh.ev = EvSchedule(key[2], FALSE)
        /\ eh.pairs[key] = 2
        /\ eh.acts[key] = 1
        /\ activation_map[key] = None
        /\ ex_out = <<>>

\* C36: no call of the extractor's closure asks a batch's capabilities for
\* a time earlier than the one they are at, whatever the order of the times
\* of the batch's events (wl_panicked records such a downgrade).
C36_DowngradesNeverRegress ==
    ~wl_panicked

----------------------------------------------------------------------------
(* Further claims about EventReader::next (checked under SpecReader)       *)

\* C39: once a call of next has set *is_finished, every complete frame of
\* the stream has been returned and the unconsumed part of the buffer holds
\* no complete frame, so a driver that stops on the flags of all its streams
\* leaves no complete frame undelivered.
C39_FinishedMeansAllFramesReturned ==
    is_finished => (delivered = srcFrames /\ Decode(Unconsumed) = <<>>)

\* a stream cut inside its last frame: its complete frames were returned,
\* the partial frame is still buffered, and the reader reports finished
C39_Witness ==
    /\ is_finished
    /\ Len(delivered) >= 1
    /\ Unconsumed # <<>>
    /\ rpos = Len(stream)

----------------------------------------------------------------------------
(* Further claims about the reported timeline events (checked under        *)
(* SpecSpan)                                                               *)

\* C40: the timeline event reported for a START at time s closed by a STOP
\* at time t has start_time = s and duration = t - s.
C40_StartTimeIsSpanStart ==
    [][(sh'.op = "remove" /\ Len(sp_out') = 1 /\ event_map[sh'.key] # <<>>) =>
          LET stack == event_map[sh'.key]
              s == stack[Len(stack)].start
              t == sp_out'[1].time
              ev == ReportedTimelineEvent(sp_out'[1])
          IN /\ ev.start_time = s
             /\ ev.duration = t - s]_vars

====
